---- MODULE Spec2Model ----
(***************************************************************************)
(* j4rs: the VM Lifecycle Manager (Jvm::create_jvm, Jvm::try_from, Drop    *)
(* for Jvm) and the population of the Reference Cache, as a state machine  *)
(* of native threads that create, clone and drop Jvm handles.              *)
(* The Invocation Engine (create_instance .. to_rust), Instance and the     *)
(* callback channel are a second state machine, EngineSpec, that starts    *)
(* where one thread has created the JavaVM and holds its handle.           *)
(***************************************************************************)
EXTENDS Integers, Sequences, FiniteSets, TLC

\* ------------------------------------------------------------------ bounds
\* Native threads of the process.
NThreads == 2
\* Distinct JNIEnv addresses one thread may be given over its attachments.
AddrsPerThread == 2
\* create_jvm calls, clones and injected failures of one run, together.
MaxOps == 3

Threads == 1..NThreads

\* Option<*mut JNIEnv>: None, or the address of an attached thread's JNIEnv.
NoEnv == 0
\* ptr::null_mut(): the JNIEnv pointer that get_created_vm hands on when
\* AttachCurrentThread did not fill it in.
NullEnv == -1
EnvAddrs(t) == ((t - 1) * AddrsPerThread + 1)..(t * AddrsPerThread)
AllEnvAddrs == 1..(NThreads * AddrsPerThread)

\* struct Jvm { jni_env, detach_thread_on_drop }
HandleVals == [env : AllEnvAddrs \cup { NullEnv }, detach : BOOLEAN]

\* ------------------------------------------------- Reference Cache entries
\* A population that looks up getJson before the class handle is copied for
\* the clone/cast lookups, and the Integer constructor before the Integer class
\* (variant for C10).
OrderGetJsonEarly ==
  << "factory_class",
     "factory_constructor_method",
     "invocation_arg_class",
     "factory_instantiate_method",
     "factory_create_for_static_method",
     "factory_create_java_array_method",
     "factory_create_java_list_method",
     "native_invocation_class",
     "invoke_method",
     "invoke_static_method",
     "invoke_to_channel_method",
     "init_callback_channel_method",
     "field_method",
     "get_json_method",
     "class_to_invoke_clone_and_cast",
     "clone_static_method",
     "cast_static_method",
     "inv_arg_java_constructor_method",
     "inv_arg_rust_constructor_method",
     "inv_arg_basic_rust_constructor_method",
     "integer_constructor_method",
     "integer_class",
     "long_class",
     "long_constructor_method",
     "short_class",
     "short_constructor_method",
     "byte_class",
     "byte_constructor_method",
     "float_class",
     "float_constructor_method",
     "double_class",
     "double_constructor_method" >>

\* The entries Jvm::try_from populates, in the order of its statements.
Order ==
  << "factory_class",
     "factory_constructor_method",
     "invocation_arg_class",
     "factory_instantiate_method",
     "factory_create_for_static_method",
     "factory_create_java_array_method",
     "factory_create_java_list_method",
     "native_invocation_class",
     "invoke_method",
     "invoke_static_method",
     "invoke_to_channel_method",
     "init_callback_channel_method",
     "field_method",
     "class_to_invoke_clone_and_cast",
     "clone_static_method",
     "cast_static_method",
     "get_json_method",
     "inv_arg_java_constructor_method",
     "inv_arg_rust_constructor_method",
     "inv_arg_basic_rust_constructor_method",
     "integer_class",
     "integer_constructor_method",
     "long_class",
     "long_constructor_method",
     "short_class",
     "short_constructor_method",
     "byte_class",
     "byte_constructor_method",
     "float_class",
     "float_constructor_method",
     "double_class",
     "double_constructor_method" >>

Entries == {Order[i] : i \in 1..Len(Order)}

\* Entries resolved with tweaks::find_class and promoted to a global reference.
ClassEntries ==
  { "factory_class", "invocation_arg_class", "native_invocation_class",
    "integer_class", "long_class", "short_class", "byte_class",
    "float_class", "double_class" }

\* The entry copied from the local native_invocation_class (non-android build):
\* no JNI lookup is made for it.
AliasEntries == { "class_to_invoke_clone_and_cast" }

\* Entries resolved with GetMethodID / GetStaticMethodID.
MethodEntries == (Entries \ ClassEntries) \ AliasEntries

\* The class handle each method lookup is given.
ClassOf(e) ==
  CASE e \in { "factory_constructor_method", "factory_instantiate_method",
               "factory_create_for_static_method",
               "factory_create_java_array_method",
               "factory_create_java_list_method" } -> "factory_class"
    [] e \in { "invoke_method", "invoke_static_method",
               "invoke_to_channel_method", "init_callback_channel_method",
               "field_method", "get_json_method" } -> "native_invocation_class"
    [] e \in { "clone_static_method", "cast_static_method" }
                                          -> "class_to_invoke_clone_and_cast"
    [] e \in { "inv_arg_java_constructor_method",
               "inv_arg_rust_constructor_method",
               "inv_arg_basic_rust_constructor_method" } -> "invocation_arg_class"
    [] e = "integer_constructor_method" -> "integer_class"
    [] e = "long_constructor_method" -> "long_class"
    [] e = "short_constructor_method" -> "short_class"
    [] e = "byte_constructor_method" -> "byte_class"
    [] e = "float_constructor_method" -> "float_class"
    [] e = "double_constructor_method" -> "double_class"
    [] OTHER -> e

\* ----------------------------------------------------------- engine bounds
\* Engine calls made in one run.
MaxEngineCalls == 2
\* InvocationArgs one engine call is given.
MaxArgs == 1
\* Callback deliveries the JVM side performs in one run.
MaxDeliveries == 2

\* Durable (global) references the JVM hands out in one run, and the null
\* reference.
RefIds == 1..(MaxEngineCalls + MaxDeliveries)
NoRef == 0

\* Heap addresses of the boxed channel senders of one run.
BoxAddrs == 1..MaxEngineCalls
NoBox == 0

\* --------------------------------------------------- the engine operations
\* Operations that take inv_args: &[InvocationArg].
OpsWithArgs ==
  { "create_instance", "create_java_array", "create_java_list", "invoke",
    "invoke_to_channel", "invoke_static" }

\* Operations that are given an Instance: by reference, or (to_rust) by value.
OpsOnInstance ==
  { "invoke", "field", "invoke_to_channel", "init_callback_channel",
    "clone_instance", "cast", "to_rust" }

EngineOps ==
  OpsWithArgs \cup OpsOnInstance \cup { "static_class" }

\* Operations that are given a class name: class_name, or to_class for cast.
OpsWithClassName ==
  { "create_instance", "create_java_array", "create_java_list",
    "static_class", "invoke_static", "cast" }

\* The class names engine calls are made with.
RequestedClassNames == { "java.util.ArrayList", "java.lang.String" }

\* cache::UNKNOWN_FOR_RUST: the class name of an Instance whose class the
\* native side was not told.
UNKNOWN_FOR_RUST == "known_in_java_world"

\* An engine whose Instances are all declared with the class name the call
\* was given, where it was given one (variant for C31).
InstanceClassNameAsGiven(op, cn) ==
  IF op \in OpsWithClassName THEN cn ELSE UNKNOWN_FOR_RUST

\* The class_name field of the Instance an operation returns, called with
\* the class name cn: class_name.to_string() in the three constructors,
\* cache::UNKNOWN_FOR_RUST.to_string() in invoke, field and Instance::from.
InstanceClassName(op, cn) ==
  CASE op = "create_instance" -> cn
    [] op = "create_java_array" -> cn
    [] op = "create_java_list" -> cn
    [] op = "invoke" -> UNKNOWN_FOR_RUST
    [] op = "field" -> UNKNOWN_FOR_RUST
    [] op \in { "static_class", "invoke_static", "clone_instance", "cast" } ->
         UNKNOWN_FOR_RUST

\* One statement of an engine operation: its kind, the temporary reference it
\* creates (x) and the temporary references it deletes (del).
St(k, x, del) == [k |-> k, x |-> x, del |-> del]

\* let c = Box::into_raw(Box::new(sender)): the boxed channel sender.
BoxSender == St("box", "", {})
\* jni_utils::global_jobject_from_str(..)? or NewObjectArray followed by
\* jni_utils::create_global_ref_from_local_ref(j, ..)?: a temporary reference.
Temp(x) == St("temp", x, {})
\* for i in 0..size { inv_args[i].as_java_ptr(..)?; SetObjectArrayElement }
MarshalArgs == St("args", "args", {})
\* Call(Static)ObjectMethod / CallVoidMethod on the JVM-side companion; x is
\* "proxy" for the createForStatic call whose result invoke_static calls.
JvmCall(x) == St("jvm", x, {})
\* Self::do_return(self.jni_env, ())?
Check == St("check", "", {})
\* jni_utils::create_global_ref_from_local_ref(result, ..)? or
\* Instance::from(result)?
PromoteResult == St("promote", "", {})
\* jni_utils::delete_java_ref(..) for each of del.
Delete(del) == St("delete", "", del)
\* Self::do_return(self.jni_env, Instance { .. })
WrapInstance == St("wrap", "", {})
\* A last statement that would first wait for an Instance on the new channel
\* (the code has no such statement, and no step of a call performs one).
RecvThenWrapReceiver == St("recv", "", {})

\* Self::do_return(self.jni_env, InstanceReceiver::new(rx, address))
WrapReceiver == St("wraprx", "", {})
\* Self::do_return(self.jni_env, serde_json::from_str(&json)?)
WrapValue == St("value", "", {})

\* The call shape with the result promoted before the exception check
\* (variant for C12).
CallShapePromoteFirst ==
  << Temp("name"), Temp("array"), MarshalArgs, JvmCall("target"),
     PromoteResult, Check, Delete({ "name", "array", "args" }), WrapInstance >>

\* The call shape with the target invoked a second time (variant for C15).
CallShapeInvokeTwice ==
  << Temp("name"), Temp("array"), MarshalArgs, JvmCall("target"),
     JvmCall("target"), Check, PromoteResult,
     Delete({ "name", "array", "args" }), WrapInstance >>

\* create_instance, create_java_array, do_create_java_list and invoke: the
\* same statements in the same order.
CallShape ==
  << Temp("name"), Temp("array"), MarshalArgs, JvmCall("target"), Check,
     PromoteResult, Delete({ "name", "array", "args" }), WrapInstance >>

\* invoke_static: what its delete_java_ref calls delete.
InvokeStaticDeletes == { "args", "array", "name" }

\* The statements of each engine operation that touch the JVM, in the order
\* of the code.
Program(op) ==
  CASE op \in { "create_instance", "create_java_array", "create_java_list",
                "invoke" } -> CallShape
    [] op = "static_class" ->
         << Temp("name"), JvmCall("target"), Delete({ "name" }),
            PromoteResult, WrapInstance >>
    [] op = "field" ->
         << Temp("name"), JvmCall("target"), Check, PromoteResult,
            Delete({ "name" }), WrapInstance >>
    [] op = "invoke_to_channel" ->
         << BoxSender, Temp("name"), Temp("array"), MarshalArgs,
            JvmCall("target"), Check, Delete({ "args", "array", "name" }),
            WrapReceiver >>
    [] op = "init_callback_channel" ->
         << BoxSender, JvmCall("target"), WrapReceiver >>
    [] op = "invoke_static" ->
         << Temp("class_name"), JvmCall("proxy"), Temp("name"), Temp("array"),
            MarshalArgs, JvmCall("target"), Check,
            Delete(InvokeStaticDeletes), PromoteResult, WrapInstance >>
    [] op = "clone_instance" ->
         << JvmCall("target"), PromoteResult, WrapInstance >>
    [] op = "cast" ->
         << Temp("name"), JvmCall("target"), Check, Delete({ "name" }),
            PromoteResult, WrapInstance >>
    [] op = "to_rust" ->
         << JvmCall("target"), Check, Temp("json"), Delete({ "json" }),
            WrapValue >>

\* ------------------------------------------------------------------- state
VARIABLES
  lock,         \* cache::MUTEX: 0 when free, else the thread holding the guard
  pc,           \* each thread's position in Jvm::create_jvm ("idle" outside)
  call,         \* the locals of each thread's create_jvm call in progress
  result,       \* what each thread's last create_jvm call returned
  tlsEnv,       \* the thread-local cached environment pointer of each thread
  activeJvms,   \* the active-handle counter
  jniFns,       \* whether the JNI function pointers are cached
  cache,        \* Reference Cache: "none", "null" (Some(null)) or "ok" per entry
  stores,       \* how many times each entry has been set
  exc,          \* whether an exception is pending in each thread's environment
  vmCount,      \* JavaVMs created in the process (JNI_GetCreatedJavaVMs)
  jvmEnv,       \* the JNIEnv of each thread while attached to the JavaVM
  envsSeen,     \* how many distinct JNIEnv addresses each thread has been given
  handles,      \* live Jvm handles of each thread: a bag over HandleVals
  detachCalls,  \* calls of Jvm::detach_current_thread made by each thread
  nCalls,       \* create_jvm calls started in the process
  nClones,      \* Jvm::clone calls made in the process
  nFail,        \* failures the environment has injected
  ecall,        \* the engine call in progress: operation, thread, position, locals
  eresult,      \* what the last engine call returned
  tempRefs,     \* temporary references created and not deleted yet
  refs,         \* each durable reference: state, owning Instances, releases
  nRefs,        \* durable references the JVM has handed out
  chan,         \* each callback channel: boxed sender, receiver, queue, history
  nBoxes,       \* channel senders boxed so far
  nEngine,      \* engine calls started
  nDeliv,       \* callback deliveries performed
  nThrown,      \* calls into the JVM that threw
  ain,          \* the last InvocationArg operation: its name, thread and inputs
  arg,          \* the InvocationArg the program holds
  ares,         \* what the last InvocationArg operation returned
  builder,      \* the JvmBuilder the program holds
  jvmOptions,   \* the option list the last build handed to Jvm::new, and
                \* the builder as it was
  addr,         \* a boxed sender's pointer, the i64 made of it, the pointer
                \* the receiver's drop makes of that
  deploy        \* the deploy_artifact call in progress or returned

vars == << lock, pc, call, result, tlsEnv, activeJvms, jniFns, cache, stores,
           exc, vmCount, jvmEnv, envsSeen, handles, detachCalls, nCalls,
           nClones, nFail, ecall, eresult, tempRefs, refs, nRefs, chan,
           nBoxes, nEngine, nDeliv, nThrown, ain, arg, ares, builder,
           jvmOptions, addr, deploy >>

\* The lifecycle variables, which the engine's own steps leave alone.
lvars == << lock, pc, call, result, tlsEnv, activeJvms, jniFns, cache, stores,
            exc, vmCount, jvmEnv, envsSeen, handles, detachCalls, nCalls,
            nClones, nFail >>

\* The engine variables, which the lifecycle steps leave alone.
evars == << ecall, eresult, tempRefs, refs, nRefs, chan, nBoxes, nEngine,
            nDeliv, nThrown >>

\* The InvocationArg and JvmBuilder variables, and those of the sender's
\* address and of deploy_artifact, which lifecycle and engine steps leave
\* alone.
avars == << ain, arg, ares, builder, jvmOptions, addr, deploy >>

\* ------------------------------------------------- InvocationArg: the values
\* The native types with a TryFrom implementation; "str" is &str and "unit"
\* is ().
NativeTypes ==
  { "String", "str", "bool", "i8", "char", "i16", "i32", "i64", "f32", "f64",
    "unit" }

\* The native types with a TryFrom implementation for a reference to them.
RefTypes == NativeTypes \ { "str", "unit" }

\* Two more of the types InvocationArg::new accepts (T: Serialize + Any): u8,
\* and a map keyed by pairs, which serde_json refuses to serialize.
OtherTypes == { "u8", "pairmap" }

\* Sample values of each type, written as Rust writes them (a string or a char
\* without its quotes).
ValuesOf(ty) ==
  CASE ty \in { "String", "str" } -> { "", "a" }
    [] ty = "bool" -> { "true", "false" }
    [] ty \in { "i8", "i16", "i32", "i64" } -> { "-1", "1" }
    [] ty = "char" -> { "c" }
    [] ty \in { "f32", "f64" } -> { "0.1", "NaN" }
    [] ty = "unit" -> { "()" }
    [] ty = "u8" -> { "7" }
    [] OTHER -> { "{(1,2):3}" }

\* Whether serde_json::to_string returns Ok for a value of the type.
Serializes(ty) == ty # "pairmap"

\* serde_json::to_string of a value that serializes: strings and chars are
\* quoted, () and the non-finite floats are null, the rest is the number or
\* the boolean as written.
ToJson(ty, v) ==
  CASE ty \in { "String", "str", "char" } -> "\"" \o v \o "\""
    [] ty \in { "f32", "f64" } -> IF v = "NaN" THEN "null" ELSE v
    [] ty = "unit" -> "null"
    [] OTHER -> v

\* The class names a caller may give to InvocationArg::new and new_2.
GivenClassNames ==
  { "java.lang.String", "java.lang.Integer", "java.lang.Boolean", "int",
    "com.example.MyBean" }

\* The class name of the Java list that carries the elements of a slice.
J4RS_ARRAY == "org.astonbitecode.j4rs.api.dtos.Array"

NoInstance == [ class_name |-> "", obj |-> "none" ]

\* Instance::new
InstanceNew(obj, cn) == [ class_name |-> cn, obj |-> obj ]

\* jni_utils::global_jobject_from_str / _i8 / _i16 / _i32 / _i64: a durable
\* reference to the boxed value.
GlobalJobjectFrom(ty, v) == "global " \o ty \o " " \o v

\* The Instances a program may hold and turn into arguments.
HeldInstances ==
  { InstanceNew("global object 1", "com.example.MyBean"),
    InstanceNew("global object 2", "java.lang.Integer"),
    InstanceNew("global object 3", "java.lang.String") }

NoArg ==
  [ variant |-> "none", class_name |-> "", serialized |-> FALSE, json |-> "",
    instance |-> NoInstance ]

\* InvocationArg::Java { instance, class_name, serialized }
Java(i, cn, ser) ==
  [ variant |-> "Java", class_name |-> cn, serialized |-> ser, json |-> "",
    instance |-> i ]

\* InvocationArg::Rust { json, class_name, serialized }
Rust(json, cn, ser) ==
  [ variant |-> "Rust", class_name |-> cn, serialized |-> ser, json |-> json,
    instance |-> NoInstance ]

\* InvocationArg::RustBasic { instance, class_name, serialized }
RustBasic(i, cn, ser) ==
  [ variant |-> "RustBasic", class_name |-> cn, serialized |-> ser,
    json |-> "", instance |-> i ]

\* errors::Result<InvocationArg>, and what else a call may end in: a panic, or
\* the Instance that InvocationArg::instance returns.
Ok(a) == [ kind |-> "Ok", arg |-> a, instance |-> NoInstance ]

Err(k) == [ kind |-> k, arg |-> NoArg, instance |-> NoInstance ]

Panic == [ kind |-> "Panic", arg |-> NoArg, instance |-> NoInstance ]

OkInstance(i) == [ kind |-> "Instance", arg |-> NoArg, instance |-> i ]

NoInput ==
  [ op |-> "none", thr |-> 0, ty |-> "", byRef |-> FALSE, v |-> "", cn |-> "",
    jniOk |-> TRUE, was |-> NoArg ]

\* JvmBuilder::new
NewBuilder ==
  [ classpath_entries |-> << >>, java_opts |-> << >>,
    no_implicit_classpath |-> FALSE ]

\* No sender boxed for the address round trip.
NoAddr == [ st |-> "none", ptr |-> 0, tx_address |-> 0, back |-> 0 ]

\* No deploy_artifact call made.
NoDeploy == [ st |-> "none", repos |-> 0, results |-> << >>, res |-> "none" ]

\* No InvocationArg built yet, and a new JvmBuilder that has built nothing.
ArgIdle ==
  /\ addr = NoAddr
  /\ deploy = NoDeploy
  /\ ain = NoInput
  /\ arg = NoArg
  /\ ares = Err("none")
  /\ builder = NewBuilder
  /\ jvmOptions = [from |-> NewBuilder, list |-> << >>]

\* No engine call in progress.
NoECall ==
  [ op |-> "none", thr |-> 0, ip |-> 0, nargs |-> 0, cn |-> "", temps |-> {},
    res |-> NoRef, target |-> NoRef, box |-> NoBox, invoked |-> 0,
    jvmCalls |-> 0, threw |-> FALSE, checked |-> FALSE, uncheckedCalls |-> 0 ]

\* The engine has not been used: no reference, no channel.
EngineIdle ==
  /\ ecall = NoECall
  /\ eresult = "none"
  /\ tempRefs = 0
  /\ refs = [r \in RefIds |-> [st |-> "none", owners |-> 0, rel |-> 0, dropped |-> FALSE,
                  cls |-> "", raw |-> FALSE]]
  /\ nRefs = 0
  /\ chan = [a \in BoxAddrs |->
               [box |-> "none", reclaims |-> 0, rx |-> FALSE, reg |-> FALSE,
                late |-> FALSE, queue |-> << >>, sent |-> << >>,
                recvd |-> << >>, waiter |-> 0]]
  /\ nBoxes = 0
  /\ nEngine = 0
  /\ nDeliv = 0
  /\ nThrown = 0

\* Thread t is inside receiver.rx().recv() on a channel whose queue is empty.
Blocked(t) == \E a \in BoxAddrs : chan[a].waiter = t

\* The references of the Instances the program holds (those of a channel's
\* queue are the channel's).
Held ==
  { r \in RefIds :
      /\ refs[r].owners > 0
      /\ \A a \in BoxAddrs :
           \A i \in 1..Len(chan[a].queue) : chan[a].queue[i] # r }

\* NewGlobalRef: a reference the JVM has not handed out before.
NewGlobalRef == nRefs + 1

\* A channel that hands out the newest Instance first (variant for C19).
SendLifo(q, r) == << r >> \o q

\* Sender::send: the Instance joins the queue behind those sent before it.
Send(q, r) == Append(q, r)

\* The locals of a thread that is not inside create_jvm.
NoCall == [ lib |-> FALSE, env |-> NoEnv, branch |-> "none", sawVm |-> FALSE,
            idx |-> 0, preEnv |-> NoEnv, delta |-> 0 ]

EmptyBag == [h \in HandleVals |-> 0]

Init ==
  /\ lock = 0
  /\ pc = [t \in Threads |-> "idle"]
  /\ call = [t \in Threads |-> NoCall]
  /\ result = [t \in Threads |-> "none"]
  /\ tlsEnv = [t \in Threads |-> NoEnv]
  /\ activeJvms = 0
  /\ jniFns = FALSE
  /\ cache = [e \in Entries |-> "none"]
  /\ stores = [e \in Entries |-> 0]
  /\ exc = [t \in Threads |-> FALSE]
  /\ vmCount = 0
  /\ jvmEnv = [t \in Threads |-> NoEnv]
  /\ envsSeen = [t \in Threads |-> 0]
  /\ handles = [t \in Threads |-> EmptyBag]
  /\ detachCalls = [t \in Threads |-> 0]
  /\ nCalls = 0
  /\ nClones = 0
  /\ nFail = 0
  /\ EngineIdle
  /\ ArgIdle

\* ------------------------------------------------------- helper operators
Add(bag, h) == [bag EXCEPT ![h] = @ + 1]
Remove(bag, h) == [bag EXCEPT ![h] = @ - 1]

\* The number of handles in a bag (no bag holds more than MaxOps handles).
BagSize(bag) ==
  Cardinality({ p \in HandleVals \X (1..MaxOps) : p[2] <= bag[p[1]] })

\* The number of live Jvm handles of thread t, and of the process.
Live(t) == BagSize(handles[t])

TotalLive ==
  Cardinality({ p \in Threads \X HandleVals \X (1..MaxOps) :
                  p[3] <= handles[p[1]][p[2]] })

\* What the run has spent of its budget: create_jvm calls, clones and injected
\* failures.
Ops == nCalls + nClones + nFail

\* The environment may make one more JNI call fail.
MayFail == Ops < MaxOps

\* A create_jvm that takes no lock (variant for C1).
MutexIgnored == TRUE

\* The lowest address of a set of addresses.
First(S) == CHOOSE a \in S : \A b \in S : a <= b

\* The addresses AttachCurrentThread or the create-VM call may hand thread t
\* for its JNIEnv: the one it has when it is attached already, else one it was
\* given before or the next one it was never given.
AttachAddrs(t) ==
  IF jvmEnv[t] # NoEnv THEN { jvmEnv[t] }
  ELSE { a \in EnvAddrs(t) : a <= First(EnvAddrs(t)) + envsSeen[t] }

\* Thread t is attached with its JNIEnv at address a.
Attached(t, a) ==
  /\ jvmEnv' = [jvmEnv EXCEPT ![t] = a]
  /\ envsSeen' = [envsSeen EXCEPT
                    ![t] = IF a = First(EnvAddrs(t)) + @ THEN @ + 1 ELSE @]

MutexFree == lock = 0

\* A cache whose getters never find an entry (variant for C9).
NeverCached(e) == FALSE

\* cache::get_*(): Some(_) once the entry has been set.
Cached(e) == cache[e] # "none"

\* The first entry at or after position i that is not cached yet; Len(Order) + 1
\* when every remaining entry is cached.
RECURSIVE NextUncached(_)
NextUncached(i) ==
  IF i > Len(Order) THEN i
  ELSE IF Cached(Order[i]) THEN NextUncached(i + 1) ELSE i

\* cache::set_*(j): the entry holds the value it is given.
CacheSet(e, v) ==
  /\ cache' = [cache EXCEPT ![e] = v]
  /\ stores' = [stores EXCEPT ![e] = @ + 1]

\* cache::add_active_jvm() and cache::remove_active_jvm() (returns the new count).
add_active_jvm == activeJvms + 1
remove_active_jvm == activeJvms - 1

\* A drop that takes every handle for the last one (variant for C4).
EveryHandleLast(n) == TRUE

\* Drop for Jvm: the condition of its outer if, n being what remove_active_jvm
\* returned.
LastHandle(n) == n <= 0

\* A drop that ignores the handle's detach_thread_on_drop (variant for C6).
DetachFlagIgnored(h, n) == n <= 0

\* Drop for Jvm: detach_current_thread is called for the last handle when the
\* handle's flag is set.
DetachOnDrop(h, n) == LastHandle(n) /\ h.detach

\* create_jvm returns res: the guard _g is released and the locals are gone.
Return(t, res) ==
  /\ pc' = [pc EXCEPT ![t] = "idle"]
  /\ call' = [call EXCEPT ![t] = NoCall]
  /\ result' = [result EXCEPT ![t] = res]
  /\ lock' = 0

\* What dropping handle h on thread t does to the counter, the thread-local
\* environment and the attachment; fail says that JNI_GetCreatedJavaVMs fails
\* inside detach_current_thread, which then detaches nothing.
DropEffects(t, h, fail) ==
  LET n == remove_active_jvm IN
  /\ activeJvms' = n
  /\ IF DetachOnDrop(h, n)
       THEN /\ detachCalls' = [detachCalls EXCEPT ![t] = @ + 1]
            /\ jvmEnv' = IF vmCount > 0 /\ ~fail
                           THEN [jvmEnv EXCEPT ![t] = NoEnv] ELSE jvmEnv
       ELSE UNCHANGED << detachCalls, jvmEnv >>
  /\ tlsEnv' = IF LastHandle(n) THEN [tlsEnv EXCEPT ![t] = NoEnv] ELSE tlsEnv

\* JNI_GetCreatedJavaVMs can fail inside the drop of h only when the drop
\* calls detach_current_thread and a JavaVM exists.
DetachMayFail(h) == vmCount > 0 /\ DetachOnDrop(h, remove_active_jvm)

\* ----------------------------------------------------------------- actions
\* Jvm::new / Jvm::attach_thread / JvmBuilder::build: thread t calls create_jvm,
\* with or without a native library name, and waits for the creation lock.
Call(t) ==
  /\ pc[t] = "idle"
  /\ Ops < MaxOps
  /\ \E lib \in BOOLEAN :
       call' = [call EXCEPT
                  ![t] = [NoCall EXCEPT !.lib = lib, !.preEnv = tlsEnv[t]]]
  /\ pc' = [pc EXCEPT ![t] = "lock"]
  /\ result' = [result EXCEPT ![t] = "none"]
  /\ nCalls' = nCalls + 1
  /\ UNCHANGED << lock, tlsEnv, activeJvms, jniFns, cache, stores, exc,
                  vmCount, jvmEnv, envsSeen, handles, detachCalls, nClones,
                  nFail >>
  /\ UNCHANGED << evars, avars >>

\* The lock is taken and the thread has a cached environment: it is reused.
AcquireReuse(t) ==
  /\ pc[t] = "lock"
  /\ MutexFree
  /\ tlsEnv[t] # NoEnv
  /\ lock' = t
  /\ call' = [call EXCEPT ![t].env = tlsEnv[t], ![t].branch = "reuse"]
  /\ pc' = [pc EXCEPT ![t] = "try_from"]
  /\ UNCHANGED << result, tlsEnv, activeJvms, jniFns, cache, stores, exc,
                  vmCount, jvmEnv, envsSeen, handles, detachCalls, nCalls,
                  nClones, nFail >>
  /\ UNCHANGED << evars, avars >>

\* The lock is taken, no environment is cached and get_created_vm finds a
\* JavaVM: AttachCurrentThread gives the thread's environment (the one it has
\* when it is attached already).
AcquireAttach(t) ==
  /\ pc[t] = "lock"
  /\ MutexFree
  /\ tlsEnv[t] = NoEnv
  /\ vmCount > 0
  /\ \E a \in AttachAddrs(t) :
       /\ Attached(t, a)
       /\ call' = [call EXCEPT ![t].env = a, ![t].branch = "attach"]
  /\ lock' = t
  /\ pc' = [pc EXCEPT ![t] = "try_from"]
  /\ UNCHANGED << result, tlsEnv, activeJvms, jniFns, cache, stores, exc,
                  vmCount, handles, detachCalls, nCalls, nClones, nFail >>
  /\ UNCHANGED << evars, avars >>

\* The lock is taken, no environment is cached and get_created_vm returns None:
\* no JavaVM exists, or enumerating the JavaVMs failed. The thread enters the
\* native create-VM call.
AcquireCreate(t) ==
  /\ pc[t] = "lock"
  /\ MutexFree
  /\ tlsEnv[t] = NoEnv
  /\ \/ vmCount = 0 /\ nFail' = nFail
     \/ vmCount > 0 /\ MayFail /\ nFail' = nFail + 1
  /\ lock' = t
  /\ call' = [call EXCEPT ![t].branch = "create", ![t].sawVm = (vmCount > 0)]
  /\ pc' = [pc EXCEPT ![t] = "creating"]
  /\ UNCHANGED << result, tlsEnv, activeJvms, jniFns, cache, stores, exc,
                  vmCount, jvmEnv, envsSeen, handles, detachCalls, nCalls,
                  nClones >>
  /\ UNCHANGED << evars, avars >>

\* The native create-VM call returns JNI_OK: a JavaVM exists and the calling
\* thread is attached to it.
CreateOk(t) ==
  /\ pc[t] = "creating"
  /\ ~call[t].sawVm
  /\ \E a \in AttachAddrs(t) :
       /\ Attached(t, a)
       /\ call' = [call EXCEPT ![t].env = a]
  /\ vmCount' = vmCount + 1
  /\ pc' = [pc EXCEPT ![t] = "try_from"]
  /\ UNCHANGED << lock, result, tlsEnv, activeJvms, jniFns, cache, stores,
                  exc, handles, detachCalls, nCalls, nClones, nFail >>
  /\ UNCHANGED << evars, avars >>

\* The native create-VM call returns an error code (JNI_EEXIST when a JavaVM
\* existed already): create_jvm returns JavaError.
CreateErr(t) ==
  /\ pc[t] = "creating"
  /\ \/ call[t].sawVm /\ nFail' = nFail
     \/ ~call[t].sawVm /\ MayFail /\ nFail' = nFail + 1
  /\ Return(t, "JavaError")
  /\ UNCHANGED << tlsEnv, activeJvms, jniFns, cache, stores, exc, vmCount,
                  jvmEnv, envsSeen, handles, detachCalls, nCalls, nClones >>
  /\ UNCHANGED << evars, avars >>

\* try_from, the JNI function pointers: taken from the cache, or from the
\* environment and cached; JniError when the environment lacks one of them.
TryFromBegin(t) ==
  /\ pc[t] = "try_from"
  /\ \/ /\ jniFns' = TRUE
        /\ pc' = [pc EXCEPT ![t] = "resolve"]
        /\ call' = [call EXCEPT ![t].idx = 1]
        /\ UNCHANGED << lock, result, nFail >>
     \/ /\ ~jniFns
        /\ MayFail
        /\ nFail' = nFail + 1
        /\ jniFns' = jniFns
        /\ Return(t, "JniError")
  /\ UNCHANGED << tlsEnv, activeJvms, cache, stores, exc, vmCount, jvmEnv,
                  envsSeen, handles, detachCalls, nCalls, nClones >>
  /\ UNCHANGED << evars, avars >>

\* try_from, every remaining cache entry is cached: the lookups are skipped
\* and the pending-exception check comes next.
ResolveDone(t) ==
  /\ pc[t] = "resolve"
  /\ NextUncached(call[t].idx) > Len(Order)
  /\ pc' = [pc EXCEPT ![t] = "check"]
  /\ call' = [call EXCEPT ![t].idx = NextUncached(call[t].idx)]
  /\ UNCHANGED << lock, result, tlsEnv, activeJvms, jniFns, cache, stores,
                  exc, vmCount, jvmEnv, envsSeen, handles, detachCalls,
                  nCalls, nClones, nFail >>
  /\ UNCHANGED << evars, avars >>

\* try_from, the next entry that is not cached is a method identifier (or the
\* class handle copied from a local): GetMethodID / GetStaticMethodID is called
\* and what it returns is stored; a lookup that fails returns null and leaves
\* an exception pending.
ResolveMethod(t) ==
  /\ pc[t] = "resolve"
  /\ LET i == NextUncached(call[t].idx) IN
       /\ i <= Len(Order)
       /\ Order[i] \notin ClassEntries
       /\ \/ /\ CacheSet(Order[i], "ok")
             /\ UNCHANGED << exc, nFail >>
          \/ /\ Order[i] \notin AliasEntries
             /\ MayFail
             /\ nFail' = nFail + 1
             /\ CacheSet(Order[i], "null")
             /\ exc' = [exc EXCEPT ![t] = TRUE]
       /\ call' = [call EXCEPT ![t].idx = i + 1]
  /\ UNCHANGED << lock, pc, result, tlsEnv, activeJvms, jniFns, vmCount,
                  jvmEnv, envsSeen, handles, detachCalls, nCalls, nClones >>
  /\ UNCHANGED << evars, avars >>

\* try_from, the next entry that is not cached is a class handle: find_class
\* finds the class, create_global_ref_from_local_ref promotes the reference and
\* sees no pending exception, and the entry is set.
ResolveClass(t) ==
  /\ pc[t] = "resolve"
  /\ LET i == NextUncached(call[t].idx) IN
       /\ i <= Len(Order)
       /\ Order[i] \in ClassEntries
       /\ ~exc[t]
       /\ CacheSet(Order[i], "ok")
       /\ call' = [call EXCEPT ![t].idx = i + 1]
  /\ UNCHANGED << lock, pc, result, tlsEnv, activeJvms, jniFns, exc, vmCount,
                  jvmEnv, envsSeen, handles, detachCalls, nCalls, nClones,
                  nFail >>
  /\ UNCHANGED << evars, avars >>

\* try_from, a class handle, and an exception is pending when
\* create_global_ref_from_local_ref checks (find_class did not find the class,
\* or an earlier method lookup failed): the exception is cleared, nothing is
\* stored and try_from returns JavaError through the ? operator.
ResolveClassErr(t) ==
  /\ pc[t] = "resolve"
  /\ LET i == NextUncached(call[t].idx) IN
       /\ i <= Len(Order)
       /\ Order[i] \in ClassEntries
       /\ \/ exc[t] /\ nFail' = nFail
          \/ ~exc[t] /\ MayFail /\ nFail' = nFail + 1
  /\ exc' = [exc EXCEPT ![t] = FALSE]
  /\ Return(t, "JavaError")
  /\ UNCHANGED << tlsEnv, activeJvms, jniFns, cache, stores, vmCount, jvmEnv,
                  envsSeen, handles, detachCalls, nCalls, nClones >>
  /\ UNCHANGED << evars, avars >>

\* try_from, the pending-exception check after the population, positive: the
\* exception is described and cleared and JavaError is returned.
CheckErr(t) ==
  /\ pc[t] = "check"
  /\ exc[t]
  /\ exc' = [exc EXCEPT ![t] = FALSE]
  /\ Return(t, "JavaError")
  /\ UNCHANGED << tlsEnv, activeJvms, jniFns, cache, stores, vmCount, jvmEnv,
                  envsSeen, handles, detachCalls, nCalls, nClones, nFail >>
  /\ UNCHANGED << evars, avars >>

\* try_from, the check is negative: the handle is built around the environment
\* (detach_thread_on_drop: true), the environment is cached for the thread
\* when none is, and the active-handle counter is incremented. create_jvm then
\* returns the handle, or goes on to register the native library.
CheckOk(t) ==
  /\ pc[t] = "check"
  /\ ~exc[t]
  /\ handles' = [handles EXCEPT
                   ![t] = Add(@, [env |-> call[t].env, detach |-> TRUE])]
  /\ tlsEnv' = IF tlsEnv[t] = NoEnv
                 THEN [tlsEnv EXCEPT ![t] = call[t].env] ELSE tlsEnv
  /\ activeJvms' = add_active_jvm
  /\ IF call[t].lib
       THEN /\ pc' = [pc EXCEPT ![t] = "libinit"]
            /\ call' = [call EXCEPT ![t].delta = @ + 1]
            /\ UNCHANGED << lock, result >>
       ELSE Return(t, "Ok")
  /\ UNCHANGED << jniFns, cache, stores, exc, vmCount, jvmEnv, envsSeen,
                  detachCalls, nCalls, nClones, nFail >>
  /\ UNCHANGED << evars, avars >>

\* An Instance::from that would attach the thread whatever it has cached
\* (variant for C37).
FromAttachesAlways(t) == TRUE

\* Instance::from and InvocationArg::try_from inside the registration:
\* cache::get_thread_local_env().map_err(|_| Jvm::attach_thread()) calls
\* create_jvm again only when the thread has no cached environment.
FromAttaches(t) == tlsEnv[t] = NoEnv

\* create_jvm, the native library was registered (invoke_static returned Ok):
\* the handle is returned. Were create_jvm called again from inside the
\* registration, the thread would wait for the lock it holds.
LibInitOk(t) ==
  /\ pc[t] = "libinit"
  /\ IF FromAttaches(t)
       THEN /\ pc' = [pc EXCEPT ![t] = "lock"]
            /\ UNCHANGED << lock, call, result >>
       ELSE Return(t, "Ok")
  /\ UNCHANGED << tlsEnv, activeJvms, jniFns, cache, stores, exc, vmCount,
                  jvmEnv, envsSeen, handles, detachCalls, nCalls, nClones,
                  nFail >>
  /\ UNCHANGED << evars, avars >>

\* create_jvm, registering the native library failed: the ? operator returns
\* the error and the local handle jvm is dropped on the way out.
LibInitErr(t) ==
  /\ pc[t] = "libinit"
  /\ ~FromAttaches(t)
  /\ MayFail
  /\ LET h == [env |-> call[t].env, detach |-> TRUE] IN
       /\ handles' = [handles EXCEPT ![t] = Remove(@, h)]
       /\ \E fail \in BOOLEAN :
            /\ fail => Ops + 1 < MaxOps /\ DetachMayFail(h)
            /\ DropEffects(t, h, fail)
            /\ nFail' = IF fail THEN nFail + 2 ELSE nFail + 1
  /\ Return(t, "JavaError")
  /\ UNCHANGED << jniFns, cache, stores, exc, vmCount, envsSeen, nCalls,
                  nClones >>
  /\ UNCHANGED << evars, avars >>

\* Drop for Jvm: thread t drops one of its live handles.
Drop(t, h) ==
  /\ pc[t] = "idle"
  /\ handles[t][h] > 0
  /\ handles' = [handles EXCEPT ![t] = Remove(@, h)]
  /\ \E fail \in BOOLEAN :
       /\ fail => MayFail /\ DetachMayFail(h)
       /\ DropEffects(t, h, fail)
       /\ nFail' = IF fail THEN nFail + 1 ELSE nFail
  /\ UNCHANGED << lock, pc, call, result, jniFns, cache, stores, exc, vmCount,
                  envsSeen, nCalls, nClones >>
  /\ UNCHANGED << evars, avars >>

\* Clone for Jvm (derived): a second handle with the same fields.
Clone(t, h) ==
  /\ pc[t] = "idle"
  /\ handles[t][h] > 0
  /\ Ops < MaxOps
  /\ handles' = [handles EXCEPT ![t] = Add(@, h)]
  /\ nClones' = nClones + 1
  /\ UNCHANGED << lock, pc, call, result, tlsEnv, activeJvms, jniFns, cache,
                  stores, exc, vmCount, jvmEnv, envsSeen, detachCalls, nCalls,
                  nFail >>
  /\ UNCHANGED << evars, avars >>

\* Jvm::detach_thread_on_drop (also what JvmBuilder::build does to the handle
\* it got when the builder's flag is false): the flag of one handle is set.
SetDetach(t, h) ==
  /\ pc[t] = "idle"
  /\ handles[t][h] > 0
  /\ \E d \in BOOLEAN :
       /\ d # h.detach
       /\ handles' = [handles EXCEPT
                        ![t] = Add(Remove(@, h), [h EXCEPT !.detach = d])]
  /\ UNCHANGED << lock, pc, call, result, tlsEnv, activeJvms, jniFns, cache,
                  stores, exc, vmCount, jvmEnv, envsSeen, detachCalls, nCalls,
                  nClones, nFail >>
  /\ UNCHANGED << evars, avars >>

Next ==
  \E t \in Threads :
    \/ Call(t)
    \/ AcquireReuse(t)
    \/ AcquireAttach(t)
    \/ AcquireCreate(t)
    \/ CreateOk(t)
    \/ CreateErr(t)
    \/ TryFromBegin(t)
    \/ ResolveDone(t)
    \/ ResolveMethod(t)
    \/ ResolveClass(t)
    \/ ResolveClassErr(t)
    \/ CheckErr(t)
    \/ CheckOk(t)
    \/ LibInitOk(t)
    \/ LibInitErr(t)
    \/ \E h \in HandleVals : Drop(t, h) \/ Clone(t, h) \/ SetDetach(t, h)

Spec == Init /\ [][Next]_vars

\* ---------------------------------------------------------------------------
\* The lifecycle in a program in which a thread can panic inside create_jvm.

\* cache::MUTEX after a thread panicked while holding its guard: free, and
\* poisoned for good.
Poisoned == -1

\* Thread t panics inside create_jvm before its handle is built: the stack
\* unwinds, the guard _g is dropped by a panicking thread and the lock is
\* poisoned. What the thread had done so far stays done.
PanicInCreate(t) ==
  /\ pc[t] \in { "creating", "try_from", "resolve", "check" }
  /\ lock = t
  /\ MayFail
  /\ nFail' = nFail + 1
  /\ pc' = [pc EXCEPT ![t] = "idle"]
  /\ call' = [call EXCEPT ![t] = NoCall]
  /\ result' = [result EXCEPT ![t] = "Panic"]
  /\ lock' = Poisoned
  /\ UNCHANGED << tlsEnv, activeJvms, jniFns, cache, stores, exc, vmCount,
                  jvmEnv, envsSeen, handles, detachCalls, nCalls, nClones >>
  /\ UNCHANGED << evars, avars >>

\* A create_jvm that would take the guard out of the PoisonError and go on to
\* create the JVM.
AcquireIgnoringPoison(t) ==
  /\ pc[t] = "lock"
  /\ lock = Poisoned
  /\ lock' = t
  /\ call' = [call EXCEPT ![t].branch = "create", ![t].sawVm = (vmCount > 0)]
  /\ pc' = [pc EXCEPT ![t] = "creating"]
  /\ UNCHANGED << result, tlsEnv, activeJvms, jniFns, cache, stores, exc,
                  vmCount, jvmEnv, envsSeen, handles, detachCalls, nCalls,
                  nClones, nFail >>
  /\ UNCHANGED << evars, avars >>

\* let _g = cache::MUTEX.lock()?; on the poisoned lock: lock() returns the
\* PoisonError, which ? turns into GeneralError; the guard inside the error is
\* dropped and create_jvm has done nothing else.
AcquirePoisoned(t) ==
  /\ pc[t] = "lock"
  /\ lock = Poisoned
  /\ pc' = [pc EXCEPT ![t] = "idle"]
  /\ call' = [call EXCEPT ![t] = NoCall]
  /\ result' = [result EXCEPT ![t] = "GeneralError"]
  /\ UNCHANGED << lock, tlsEnv, activeJvms, jniFns, cache, stores, exc,
                  vmCount, jvmEnv, envsSeen, handles, detachCalls, nCalls,
                  nClones, nFail >>
  /\ UNCHANGED << evars, avars >>

PoisonNext ==
  \/ Next
  \/ \E t \in Threads : PanicInCreate(t)
  \/ \E t \in Threads : AcquirePoisoned(t)

PoisonSpec == Init /\ [][PoisonNext]_vars

\* ------------------------------------------------------ the invocation engine
\* The state in which the engine is used: thread 1 has created the JavaVM with
\* Jvm::new(&[], None) and holds the handle; every cache entry is populated.
JvmCreated ==
  LET a == First(EnvAddrs(1)) IN
  /\ lock = 0
  /\ pc = [t \in Threads |-> "idle"]
  /\ call = [t \in Threads |-> NoCall]
  /\ result = [t \in Threads |-> IF t = 1 THEN "Ok" ELSE "none"]
  /\ tlsEnv = [t \in Threads |-> IF t = 1 THEN a ELSE NoEnv]
  /\ activeJvms = 1
  /\ jniFns = TRUE
  /\ cache = [e \in Entries |-> "ok"]
  /\ stores = [e \in Entries |-> 1]
  /\ exc = [t \in Threads |-> FALSE]
  /\ vmCount = 1
  /\ jvmEnv = [t \in Threads |-> IF t = 1 THEN a ELSE NoEnv]
  /\ envsSeen = [t \in Threads |-> IF t = 1 THEN 1 ELSE 0]
  /\ handles = [t \in Threads |->
                  IF t = 1 THEN Add(EmptyBag, [env |-> a, detach |-> TRUE])
                  ELSE EmptyBag]
  /\ detachCalls = [t \in Threads |-> 0]
  /\ nCalls = 1
  /\ nClones = 0
  /\ nFail = 0

EngineInit == JvmCreated /\ EngineIdle /\ ArgIdle

\* The statement the engine call in progress is at.
Stmt == Program(ecall.op)[ecall.ip]
AtStmt(k) == ecall.op # "none" /\ Stmt.k = k

\* The call in progress once it has made one more call into the JVM (an
\* invocation, or the JNI call of a helper that makes a reference): the call
\* counts as unchecked when an earlier invocation has not been followed by an
\* exception check yet.
JniCalled(c) ==
  [c EXCEPT !.uncheckedCalls = IF c.jvmCalls > 0 /\ ~c.checked
                                 THEN @ + 1 ELSE @]

\* The references a set of temporaries stands for: one each, and one per
\* argument for "args".
RefCount(names, nargs) ==
  Cardinality(names \ { "args" }) + (IF "args" \in names THEN nargs ELSE 0)

\* Drop for Instance: the reference is deleted only when the dropping thread
\* has a cached environment.
ReleasesOnDrop(t) == tlsEnv[t] # NoEnv

\* The Instance holding reference r is dropped by thread t, and its
\* class_name with it.
DropInstanceRef(rs, r, t) ==
  [rs EXCEPT ![r].owners = @ - 1,
             ![r].dropped = TRUE,
             ![r].cls = "",
             ![r].st = IF ReleasesOnDrop(t) THEN "released" ELSE @,
             ![r].rel = IF ReleasesOnDrop(t) THEN @ + 1 ELSE @]

\* The Instances of a sequence are dropped by thread t.
RECURSIVE DropAll(_, _, _)
DropAll(rs, q, t) ==
  IF q = << >> THEN rs ELSE DropAll(DropInstanceRef(rs, Head(q), t), Tail(q), t)

\* Drop for InstanceReceiver: Box::from_raw(tx_address) and mem::drop; then the
\* receiving half goes, and the Instances still queued with it.
\* A receiver drop that would also withdraw the sender's address from the JVM
\* side (the code has no such step).
ReceiverDroppedUnregisters(ch, a) ==
  [ch EXCEPT ![a].rx = FALSE, ![a].box = "freed", ![a].reclaims = @ + 1,
             ![a].queue = << >>, ![a].reg = FALSE]

ReceiverDropped(ch, a) ==
  [ch EXCEPT ![a].rx = FALSE, ![a].box = "freed", ![a].reclaims = @ + 1,
             ![a].queue = << >>]

\* What the locals of an operation leave behind when it returns: to_rust owns
\* the Instance it was given, which is dropped on every way out.
EndRefs(rs) ==
  IF ecall.op = "to_rust" THEN DropInstanceRef(rs, ecall.target, ecall.thr)
  ELSE rs

\* jni_utils::global_jobject_from_str, create_global_ref_from_local_ref and
\* the as_java_ptr constructors on thread t: Err, with the exception cleared,
\* when an exception is pending once their JNI call has been made.
HelperErr(t) == exc[t]

\* A do_return that reports the exception and leaves it pending (variant for
\* C11).
ExceptionKept(t) == exc

\* do_return with an exception pending: ExceptionDescribe, then ExceptionClear.
ExceptionClear(t) == [exc EXCEPT ![t] = FALSE]

\* The operation returns res to its caller.
EngineReturn(res) ==
  /\ ecall' = NoECall
  /\ eresult' = res

\* ExceptionCheck is positive: ExceptionDescribe, ExceptionClear, and the
\* operation returns JavaError; the temporaries it holds stay as they are.
ReturnJavaError ==
  /\ exc' = ExceptionClear(ecall.thr)
  /\ EngineReturn("JavaError")
  /\ refs' = EndRefs(refs)
  /\ UNCHANGED << tempRefs, nRefs, chan, nBoxes >>

\* Thread t, which holds a Jvm handle, calls an engine operation with 0 to
\* MaxArgs arguments, on (or, for to_rust, with) one of the live Instances,
\* and with the class name cn where the operation takes one.
CallNamed(t, op, cn) ==
  /\ ecall.op = "none"
  /\ pc[t] = "idle"
  /\ ~Blocked(t)
  /\ \E h \in HandleVals : handles[t][h] > 0 /\ jvmEnv[t] = h.env
  /\ nEngine < MaxEngineCalls
  /\ \E n \in (IF op \in OpsWithArgs THEN 0..MaxArgs ELSE { 0 }) :
       \E r \in (IF op \in OpsOnInstance THEN Held ELSE { NoRef }) :
         ecall' = [NoECall EXCEPT !.op = op, !.thr = t, !.ip = 1,
                                  !.nargs = n, !.target = r, !.cn = cn]
  /\ eresult' = "none"
  /\ nEngine' = nEngine + 1
  /\ UNCHANGED << tempRefs, refs, nRefs, chan, nBoxes, nDeliv, nThrown >>
  /\ UNCHANGED << lvars, avars >>

\* An engine call of a program that names one class throughout.
EngineCall(t, op) ==
  /\ op \in EngineOps
  /\ CallNamed(t, op, IF op \in OpsWithClassName THEN "java.lang.String"
                      ELSE "")

\* The channel is made and its sender boxed; or a name string, the argument
\* array or the argument objects are made. The helpers that make a reference
\* return Err, with the exception cleared, when an exception is pending.
Marshal ==
  /\ \/ /\ AtStmt("box")
        /\ chan' = [chan EXCEPT ![nBoxes + 1].box = "alloc"]
        /\ nBoxes' = nBoxes + 1
        /\ ecall' = [ecall EXCEPT !.ip = @ + 1, !.box = nBoxes + 1]
        /\ UNCHANGED << eresult, tempRefs, refs, nRefs, exc >>
     \/ /\ AtStmt("temp") \/ AtStmt("args")
        /\ LET n == IF Stmt.k = "temp" THEN 1 ELSE ecall.nargs IN
             IF n > 0 /\ HelperErr(ecall.thr)
               THEN ReturnJavaError
               ELSE /\ ecall' = IF n > 0
                                 THEN [JniCalled(ecall) EXCEPT
                                         !.ip = @ + 1,
                                         !.temps = @ \cup { Stmt.x },
                                         !.checked = TRUE]
                                 ELSE [ecall EXCEPT !.ip = @ + 1]
                    /\ tempRefs' = tempRefs + n
                    /\ UNCHANGED << eresult, refs, nRefs, chan, nBoxes, exc >>
  /\ UNCHANGED << nEngine, nDeliv, nThrown >>
  /\ UNCHANGED << lock, pc, call, result, tlsEnv, activeJvms, jniFns, cache,
                  stores, vmCount, jvmEnv, envsSeen, handles, detachCalls,
                  nCalls, nClones, nFail >>
  /\ UNCHANGED avars

\* The call into the JVM: it returns a local reference, or it throws and leaves
\* the exception pending. The proxy invoke_static gets from createForStatic is
\* one more reference the call holds; the call that is given the sender's
\* address makes it known to the JVM side.
Invoke ==
  /\ AtStmt("jvm")
  /\ \E throws \in BOOLEAN :
       LET proxy == Stmt.x = "proxy" /\ ~throws IN
       /\ exc' = [exc EXCEPT ![ecall.thr] = @ \/ throws]
       /\ ecall' = [JniCalled(ecall) EXCEPT
                      !.ip = @ + 1,
                      !.jvmCalls = @ + 1,
                      !.invoked = IF Stmt.x = "target" THEN @ + 1 ELSE @,
                      !.threw = @ \/ throws,
                      !.checked = FALSE,
                      !.temps = IF proxy THEN @ \cup { "proxy" } ELSE @]
       /\ tempRefs' = IF proxy THEN tempRefs + 1 ELSE tempRefs
       /\ chan' = IF ecall.box # NoBox /\ ~throws
                    THEN [chan EXCEPT ![ecall.box].reg = TRUE] ELSE chan
       /\ nThrown' = IF throws THEN nThrown + 1 ELSE nThrown
  /\ UNCHANGED << eresult, refs, nRefs, nBoxes, nEngine, nDeliv >>
  /\ UNCHANGED << lock, pc, call, result, tlsEnv, activeJvms, jniFns, cache,
                  stores, vmCount, jvmEnv, envsSeen, handles, detachCalls,
                  nCalls, nClones, nFail >>
  /\ UNCHANGED avars

\* Self::do_return(self.jni_env, ())?: JavaError when an exception is pending,
\* else the operation goes on.
ExceptionCheck ==
  /\ AtStmt("check")
  /\ IF exc[ecall.thr]
       THEN ReturnJavaError
       ELSE /\ ecall' = [ecall EXCEPT !.ip = @ + 1, !.checked = TRUE]
            /\ UNCHANGED << eresult, tempRefs, refs, nRefs, chan, nBoxes,
                            exc >>
  /\ UNCHANGED << nEngine, nDeliv, nThrown >>
  /\ UNCHANGED << lock, pc, call, result, tlsEnv, activeJvms, jniFns, cache,
                  stores, vmCount, jvmEnv, envsSeen, handles, detachCalls,
                  nCalls, nClones, nFail >>
  /\ UNCHANGED avars

\* The raw result is promoted to a durable reference: a reference the JVM has
\* not handed out before. With an exception pending the helper returns Err,
\* with the exception cleared, and there is no reference.
Promote ==
  /\ AtStmt("promote")
  /\ IF HelperErr(ecall.thr)
       THEN ReturnJavaError
       ELSE /\ refs' = [refs EXCEPT ![NewGlobalRef].st = "live"]
            /\ nRefs' = nRefs + 1
            /\ ecall' = [JniCalled(ecall) EXCEPT
                           !.ip = @ + 1, !.res = NewGlobalRef, !.checked = TRUE]
            /\ UNCHANGED << eresult, tempRefs, chan, nBoxes, exc >>
  /\ UNCHANGED << nEngine, nDeliv, nThrown >>
  /\ UNCHANGED << lock, pc, call, result, tlsEnv, activeJvms, jniFns, cache,
                  stores, vmCount, jvmEnv, envsSeen, handles, detachCalls,
                  nCalls, nClones, nFail >>
  /\ UNCHANGED avars

\* The delete_java_ref calls of the operation.
Release ==
  /\ AtStmt("delete")
  /\ ecall' = [ecall EXCEPT !.ip = @ + 1, !.temps = @ \ Stmt.del]
  /\ tempRefs' = tempRefs - RefCount(ecall.temps \cap Stmt.del, ecall.nargs)
  /\ UNCHANGED << eresult, refs, nRefs, chan, nBoxes, nEngine, nDeliv,
                  nThrown >>
  /\ UNCHANGED << lvars, avars >>

\* An operation that returns an Instance around the reference of the Instance
\* it was called on (variant for C18).
JInstanceOfTarget == IF ecall.target # NoRef THEN ecall.target ELSE ecall.res

\* Instance { jinstance: native_invocation_global_instance, .. }: the returned
\* Instance wraps the reference the result was promoted to.
JInstance == ecall.res

\* The last statement, Self::do_return(env, value): the value is built, then
\* the exception check decides between Ok(value) and JavaError, which drops
\* the value.
Wrap ==
  /\ \/ /\ AtStmt("wrap")
        /\ IF exc[ecall.thr]
             THEN /\ refs' = DropInstanceRef(
                               [refs EXCEPT ![JInstance].owners = @ + 1],
                               JInstance, ecall.thr)
                  /\ EngineReturn("JavaError")
             ELSE /\ refs' = [refs EXCEPT
                                ![JInstance].owners = @ + 1,
                                ![JInstance].cls =
                                  InstanceClassName(ecall.op, ecall.cn)]
                  /\ EngineReturn("Instance")
        /\ UNCHANGED chan
     \/ /\ AtStmt("wraprx")
        /\ IF exc[ecall.thr]
             THEN /\ chan' = ReceiverDropped(chan, ecall.box)
                  /\ EngineReturn("JavaError")
             ELSE /\ chan' = [chan EXCEPT ![ecall.box].rx = TRUE]
                  /\ EngineReturn("Receiver")
        /\ UNCHANGED refs
     \/ /\ AtStmt("value")
        /\ \E parsed \in BOOLEAN :
             EngineReturn(IF exc[ecall.thr] THEN "JavaError"
                          ELSE IF parsed THEN "Value" ELSE "ParseError")
        /\ refs' = EndRefs(refs)
        /\ UNCHANGED chan
  /\ exc' = ExceptionClear(ecall.thr)
  /\ UNCHANGED << tempRefs, nRefs, nBoxes, nEngine, nDeliv, nThrown >>
  /\ UNCHANGED << lock, pc, call, result, tlsEnv, activeJvms, jniFns, cache,
                  stores, vmCount, jvmEnv, envsSeen, handles, detachCalls,
                  nCalls, nClones, nFail >>
  /\ UNCHANGED avars

\* Drop for Instance: thread t drops an Instance it was given or sent
\* (Instance is Send); Instance::java_object, which consumes its Instance,
\* drops it the same way.
DropInstance(t, r) ==
  /\ r \in Held
  /\ ecall.thr # t
  /\ ~Blocked(t)
  /\ ecall.target # r
  /\ refs' = DropInstanceRef(refs, r, t)
  /\ UNCHANGED << ecall, eresult, tempRefs, nRefs, chan, nBoxes, nEngine,
                  nDeliv, nThrown >>
  /\ UNCHANGED << lvars, avars >>

\* A callback occurrence on a JVM-owned thread: the sender is rebuilt from the
\* address the JVM side was given and one Instance, around a new durable
\* reference, is pushed. A delivery to a sender that was reclaimed is recorded.
Deliver(a) ==
  /\ chan[a].reg
  /\ nDeliv < MaxDeliveries
  /\ nDeliv' = nDeliv + 1
  /\ IF chan[a].box = "alloc"
       THEN /\ refs' = [refs EXCEPT ![NewGlobalRef].st = "live",
                                    ![NewGlobalRef].owners = 1]
            /\ nRefs' = nRefs + 1
            /\ chan' = [chan EXCEPT ![a].queue = Send(@, NewGlobalRef),
                                    ![a].sent = Append(@, NewGlobalRef)]
       ELSE /\ chan' = [chan EXCEPT ![a].late = TRUE]
            /\ UNCHANGED << refs, nRefs >>
  /\ UNCHANGED << ecall, eresult, tempRefs, nBoxes, nEngine, nThrown >>
  /\ UNCHANGED << lvars, avars >>

\* receiver.rx().recv() on thread t finds the queue empty: the call blocks
\* (the boxed sender keeps the channel connected), and with it thread t, which
\* holds the borrowed receiver.
RecvWait(t, a) ==
  /\ chan[a].rx
  /\ ecall.thr # t
  /\ ~Blocked(t)
  /\ chan[a].waiter = 0
  /\ chan[a].queue = << >>
  /\ chan' = [chan EXCEPT ![a].waiter = t]
  /\ UNCHANGED << ecall, eresult, tempRefs, refs, nRefs, nBoxes, nEngine,
                  nDeliv, nThrown >>
  /\ UNCHANGED << lvars, avars >>

\* receiver.rx().recv() on thread t yields the oldest queued Instance, at once
\* or at the end of its wait.
Recv(t, a) ==
  /\ chan[a].rx
  /\ ecall.thr # t
  /\ IF Blocked(t) THEN chan[a].waiter = t ELSE chan[a].waiter = 0
  /\ chan[a].queue # << >>
  /\ chan' = [chan EXCEPT ![a].queue = Tail(@),
                          ![a].recvd = Append(@, Head(chan[a].queue)),
                          ![a].waiter = 0]
  /\ UNCHANGED << ecall, eresult, tempRefs, refs, nRefs, nBoxes, nEngine,
                  nDeliv, nThrown >>
  /\ UNCHANGED << lvars, avars >>

\* Drop for InstanceReceiver on thread t.
DropReceiver(t, a) ==
  /\ chan[a].rx
  /\ ecall.thr # t
  /\ ~Blocked(t)
  /\ chan[a].waiter = 0
  /\ chan' = ReceiverDropped(chan, a)
  /\ refs' = DropAll(refs, chan[a].queue, t)
  /\ UNCHANGED << ecall, eresult, tempRefs, nRefs, nBoxes, nEngine, nDeliv,
                  nThrown >>
  /\ UNCHANGED << lvars, avars >>

\* Drop for Jvm between engine calls: the handle is borrowed while a call of
\* its thread is in progress.
DropJvm(t, h) ==
  /\ ecall.thr # t
  /\ ~Blocked(t)
  /\ Drop(t, h)

EngineNext ==
  \/ \E t \in Threads : \E op \in EngineOps : EngineCall(t, op)
  \/ Marshal
  \/ Invoke
  \/ ExceptionCheck
  \/ Promote
  \/ Release
  \/ Wrap
  \/ \E t \in Threads : \E r \in RefIds : DropInstance(t, r)
  \/ \E a \in BoxAddrs : Deliver(a)
  \/ \E t \in Threads : \E a \in BoxAddrs : Recv(t, a) \/ DropReceiver(t, a)
  \/ \E t \in Threads : \E h \in HandleVals : DropJvm(t, h)

EngineSpec == EngineInit /\ [][EngineNext]_vars

\* ---------------------------------------------------------------------------
\* The lifecycle when AttachCurrentThread can fail.

\* get_created_vm finds a JavaVM and AttachCurrentThread fails for a thread
\* that is not attached: its return code is not read, jni_environment is
\* still null and Some(jni_environment) is returned, so create_jvm goes on
\* to try_from with JNI_OK and the null pointer.
AttachFails(t) ==
  /\ pc[t] = "lock"
  /\ MutexFree
  /\ tlsEnv[t] = NoEnv
  /\ vmCount > 0
  /\ jvmEnv[t] = NoEnv
  /\ MayFail
  /\ nFail' = nFail + 1
  /\ lock' = t
  /\ call' = [call EXCEPT ![t].env = NullEnv, ![t].branch = "attach"]
  /\ pc' = [pc EXCEPT ![t] = "try_from"]
  /\ UNCHANGED << result, tlsEnv, activeJvms, jniFns, cache, stores, exc,
                  vmCount, jvmEnv, envsSeen, handles, detachCalls, nCalls,
                  nClones >>
  /\ UNCHANGED << evars, avars >>

\* try_from reads the function table through the null pointer, or passes the
\* null pointer to a JNI function: undefined behaviour. Either the call goes
\* on as if the pointer were good (the steps of try_from), or the process is
\* ended by the fault, and every thread with it.
NullEnvFault(t) ==
  /\ pc[t] \in { "try_from", "resolve", "check" }
  /\ call[t].env = NullEnv
  /\ pc' = [u \in Threads |-> "fault"]
  /\ result' = [result EXCEPT ![t] = "Fault"]
  /\ UNCHANGED << lock, call, tlsEnv, activeJvms, jniFns, cache, stores, exc,
                  vmCount, jvmEnv, envsSeen, handles, detachCalls, nCalls,
                  nClones, nFail >>
  /\ UNCHANGED << evars, avars >>

AttachFailNext ==
  \/ Next
  \/ \E t \in Threads : AttachFails(t)
  \/ \E t \in Threads : NullEnvFault(t)

AttachFailSpec == Init /\ [][AttachFailNext]_vars

\* ---------------------------------------------------------------------------
\* The lifecycle in a program that neither clones a handle nor clears its
\* detach_thread_on_drop: every handle is as try_from made it.
CreateJvmStep(t) ==
  \/ Call(t)
  \/ AcquireReuse(t)
  \/ AcquireAttach(t)
  \/ AcquireCreate(t)
  \/ CreateOk(t)
  \/ CreateErr(t)
  \/ TryFromBegin(t)
  \/ ResolveDone(t)
  \/ ResolveMethod(t)
  \/ ResolveClass(t)
  \/ ResolveClassErr(t)
  \/ CheckErr(t)
  \/ CheckOk(t)
  \/ LibInitOk(t)
  \/ LibInitErr(t)

\* The steps of a create_jvm call in progress on thread t: the lock call
\* returns when the lock is free, and every JNI call made under the lock
\* returns.
CreateJvmProgress(t) ==
  \/ AcquireReuse(t)
  \/ AcquireAttach(t)
  \/ AcquireCreate(t)
  \/ CreateOk(t)
  \/ CreateErr(t)
  \/ TryFromBegin(t)
  \/ ResolveDone(t)
  \/ ResolveMethod(t)
  \/ ResolveClass(t)
  \/ ResolveClassErr(t)
  \/ CheckErr(t)
  \/ CheckOk(t)
  \/ LibInitOk(t)
  \/ LibInitErr(t)

CreateDropNext ==
  \E t \in Threads : CreateJvmStep(t) \/ \E h \in HandleVals : Drop(t, h)

CreateDropSpec == Init /\ [][CreateDropNext]_vars

\* Every thread inside create_jvm keeps running: it is scheduled, and the
\* lock is handed to a waiting thread once it stays free.
CreateDropLive ==
  /\ Init
  /\ [][CreateDropNext]_vars
  /\ \A t \in Threads : WF_vars(CreateJvmProgress(t))

\* ---------------------------------------------------------------------------
\* The engine in a program that also clones its Jvm handles and sets their
\* detach flag between engine calls.
CloneJvm(t, h) ==
  /\ ecall.thr # t
  /\ Clone(t, h)

SetDetachJvm(t, h) ==
  /\ ecall.thr # t
  /\ SetDetach(t, h)

EngineCloneNext ==
  \/ EngineNext
  \/ \E t \in Threads : \E h \in HandleVals : CloneJvm(t, h)
  \/ \E t \in Threads : \E h \in HandleVals : SetDetachJvm(t, h)

EngineCloneSpec == EngineInit /\ [][EngineCloneNext]_vars

\* ---------------------------------------------------------------------------
\* The engine in a program that names several classes: every operation that
\* takes a class name is called with each of RequestedClassNames, and the
\* Instances it makes are used and dropped.
NamedCall(t, op) ==
  /\ op \in EngineOps
  /\ \E cn \in (IF op \in OpsWithClassName THEN RequestedClassNames
                 ELSE { "" }) :
       CallNamed(t, op, cn)

ClassNext ==
  \/ \E t \in Threads : \E op \in EngineOps : NamedCall(t, op)
  \/ Marshal
  \/ Invoke
  \/ ExceptionCheck
  \/ Promote
  \/ Release
  \/ Wrap
  \/ \E t \in Threads : \E r \in RefIds : DropInstance(t, r)

ClassSpec == EngineInit /\ [][ClassNext]_vars

\* ---------------------------------------------------------------------------
\* The engine in a program that also takes the jobject out of its Instances.

\* Instance::java_object on thread t: self.jinstance is copied out for the
\* caller, and self, which the call consumed, is dropped as the call returns.
JavaObject(t, r) ==
  /\ r \in Held
  /\ ecall.thr # t
  /\ ~Blocked(t)
  /\ ecall.target # r
  /\ refs' = [DropInstanceRef(refs, r, t) EXCEPT ![r].raw = TRUE]
  /\ UNCHANGED << ecall, eresult, tempRefs, nRefs, chan, nBoxes, nEngine,
                  nDeliv, nThrown >>
  /\ UNCHANGED << lvars, avars >>

ObjectNext ==
  \/ ClassNext
  \/ \E t \in Threads : \E r \in RefIds : JavaObject(t, r)

ObjectSpec == EngineInit /\ [][ObjectNext]_vars

\* ---------------------------------------------------------------------------
\* InvocationArg: the constructors and conversions, as functions of their
\* inputs. jniOk is whether the JNI helper that boxes the value succeeds.

\* A dispatch that would box bool as well.
JniBoxedTypesWithBool == { "String", "bool", "i8", "i16", "i32", "i64" }

\* The types InvocationArg::new_2 finds by downcast and boxes through JNI.
JniBoxedTypes == { "String", "i8", "i16", "i32", "i64" }

new_2(ty, v, cn, jniOk) ==
  IF ty \in JniBoxedTypes
    THEN IF jniOk
           THEN Ok(RustBasic(InstanceNew(GlobalJobjectFrom(ty, v), cn), cn,
                             FALSE))
           ELSE Err("JniError")
    ELSE IF Serializes(ty)
           THEN Ok(Rust(ToJson(ty, v), cn, TRUE))
           ELSE Err("ParseError")

\* .expect("Could not create the InvocationArg. ...")
ExpectCreated(r) == IF r.kind = "Ok" THEN r ELSE Panic

\* InvocationArg::new on thread t
InvocationArg_new(t, ty, v, cn, jniOk) ==
  IF tlsEnv[t] = NoEnv
    THEN Panic
    ELSE ExpectCreated(new_2(ty, v, cn, jniOk))

\* A table that would declare i16 as java.lang.Integer.
FixedClassShortAsInteger(ty) ==
  CASE ty \in { "String", "str" } -> "java.lang.String"
    [] ty = "bool" -> "java.lang.Boolean"
    [] ty = "i8" -> "java.lang.Byte"
    [] ty = "char" -> "java.lang.Character"
    [] ty \in { "i16", "i32" } -> "java.lang.Integer"
    [] ty = "i64" -> "java.lang.Long"
    [] ty = "f32" -> "java.lang.Float"
    [] ty = "f64" -> "java.lang.Double"
    [] OTHER -> "void"

\* The class name each TryFrom implementation passes to new_2.
FixedClass(ty) ==
  CASE ty \in { "String", "str" } -> "java.lang.String"
    [] ty = "bool" -> "java.lang.Boolean"
    [] ty = "i8" -> "java.lang.Byte"
    [] ty = "char" -> "java.lang.Character"
    [] ty = "i16" -> "java.lang.Short"
    [] ty = "i32" -> "java.lang.Integer"
    [] ty = "i64" -> "java.lang.Long"
    [] ty = "f32" -> "java.lang.Float"
    [] ty = "f64" -> "java.lang.Double"
    [] OTHER -> "void"

\* InvocationArg::try_from of a value or of a reference to it, on thread t;
\* a &str is turned into a String first.
try_from(t, ty, v, jniOk) ==
  IF tlsEnv[t] = NoEnv
    THEN Err("NoJniEnv")
    ELSE new_2(IF ty = "str" THEN "String" ELSE ty, v, FixedClass(ty), jniOk)

\* impl From<Instance> for InvocationArg
from_instance(i) == Java(i, i.class_name, FALSE)

\* InvocationArg::try_from of a slice whose elements are values v of the type:
\* each element is converted, then a Java list is made of them.
try_from_slice(t, ty, v, jniOk, listOk) ==
  IF try_from(t, ty, v, jniOk).kind # "Ok"
    THEN Err(try_from(t, ty, v, jniOk).kind)
    ELSE IF listOk
           THEN Ok(from_instance(InstanceNew("global list", J4RS_ARRAY)))
           ELSE Err("JavaError")

\* utils::primitive_of: the primitive type of a boxed class name, "" for None.
PrimitiveOf(cn) ==
  CASE cn = "java.lang.Boolean" -> "boolean"
    [] cn = "java.lang.Byte" -> "byte"
    [] cn = "java.lang.Character" -> "char"
    [] cn = "java.lang.Short" -> "short"
    [] cn = "java.lang.Integer" -> "int"
    [] cn = "java.lang.Long" -> "long"
    [] cn = "java.lang.Float" -> "float"
    [] cn = "java.lang.Double" -> "double"
    [] cn = "void" -> "void"
    [] OTHER -> ""

\* A make_primitive that would unwrap the Option.
make_primitive_unwrap(a) ==
  IF PrimitiveOf(a.class_name) # ""
    THEN Ok([a EXCEPT !.class_name = PrimitiveOf(a.class_name)])
    ELSE Panic

\* A make_primitive that would serialize the argument again under its new
\* class name (variant for C32).
make_primitive_reserialized(a) ==
  IF PrimitiveOf(a.class_name) # ""
    THEN Ok(Rust(a.json, PrimitiveOf(a.class_name), TRUE))
    ELSE Err("JavaError")

\* InvocationArg::make_primitive
make_primitive(a) ==
  IF PrimitiveOf(a.class_name) # ""
    THEN Ok([a EXCEPT !.class_name = PrimitiveOf(a.class_name)])
    ELSE Err("JavaError")

\* InvocationArg::into_primitive
into_primitive(a) == make_primitive(a)

\* An accessor that would hand out the Instance of a RustBasic argument too.
InvocationArg_instance_any(a) ==
  IF a.variant \in { "Java", "RustBasic" }
    THEN OkInstance(a.instance)
    ELSE Err("RustError")

\* InvocationArg::instance
InvocationArg_instance(a) ==
  CASE a.variant = "Java" -> OkInstance(a.instance)
    [] a.variant = "RustBasic" -> Err("RustError")
    [] OTHER -> Err("RustError")

\* One InvocationArg operation of thread t: the input is recorded, the result
\* is what the operation returns, and the program holds the argument it was
\* given back, if any.
ArgOp(input, r) ==
  /\ ain' = input
  /\ ares' = r
  /\ arg' = r.arg
  /\ UNCHANGED << lvars, evars, builder, jvmOptions, addr, deploy >>

ArgTryFrom(t, ty, byRef, v, jniOk) ==
  /\ byRef => ty \in RefTypes
  /\ ArgOp([NoInput EXCEPT !.op = "try_from", !.thr = t, !.ty = ty,
                           !.byRef = byRef, !.v = v, !.jniOk = jniOk],
           try_from(t, ty, v, jniOk))

ArgTryFromSlice(t, ty, v, jniOk, listOk) ==
  /\ ty # "unit"
  /\ ArgOp([NoInput EXCEPT !.op = "try_from_slice", !.thr = t, !.ty = ty,
                           !.v = v, !.jniOk = jniOk],
           try_from_slice(t, ty, v, jniOk, listOk))

\* new_2 is given the environment of the calling thread.
ArgNew2(t, ty, v, cn, jniOk) ==
  /\ tlsEnv[t] # NoEnv
  /\ ArgOp([NoInput EXCEPT !.op = "new_2", !.thr = t, !.ty = ty, !.v = v,
                           !.cn = cn, !.jniOk = jniOk],
           new_2(ty, v, cn, jniOk))

ArgNew(t, ty, v, cn, jniOk) ==
  /\ v \in ValuesOf(ty)
  /\ ArgOp([NoInput EXCEPT !.op = "new", !.thr = t, !.ty = ty, !.v = v,
                           !.cn = cn, !.jniOk = jniOk],
           InvocationArg_new(t, ty, v, cn, jniOk))

ArgFromInstance(t, i) ==
  /\ i \in HeldInstances
  /\ ArgOp([NoInput EXCEPT !.op = "from", !.thr = t], Ok(from_instance(i)))

ArgIntoPrimitive(t) ==
  /\ arg # NoArg
  /\ ArgOp([NoInput EXCEPT !.op = "into_primitive", !.thr = t, !.was = arg],
           into_primitive(arg))

ArgInstance(t) ==
  /\ arg # NoArg
  /\ ArgOp([NoInput EXCEPT !.op = "instance", !.thr = t, !.was = arg],
           InvocationArg_instance(arg))

ArgNext ==
  \/ \E t \in Threads : \E ty \in NativeTypes : \E byRef, jniOk \in BOOLEAN :
       \E v \in ValuesOf(ty) : ArgTryFrom(t, ty, byRef, v, jniOk)
  \/ \E t \in Threads : \E ty \in NativeTypes : \E jniOk, listOk \in BOOLEAN :
       \E v \in ValuesOf(ty) : ArgTryFromSlice(t, ty, v, jniOk, listOk)
  \/ \E t \in Threads : \E ty \in NativeTypes \cup OtherTypes :
       \E v \in ValuesOf(ty) : \E cn \in GivenClassNames :
         \E jniOk \in BOOLEAN :
           ArgNew2(t, ty, v, cn, jniOk) \/ ArgNew(t, ty, v, cn, jniOk)
  \/ \E t \in Threads : \E i \in HeldInstances : ArgFromInstance(t, i)
  \/ \E t \in Threads : ArgIntoPrimitive(t) \/ ArgInstance(t)

\* A program that builds and converts arguments after thread 1 created the
\* JVM; the other threads have no cached environment.
ArgSpec == EngineInit /\ [][ArgNext]_vars

\* ---------------------------------------------------------------------------
\* JvmBuilder. A string that build assembles is the sequence of the pieces it
\* is formatted from.

\* The most classpath entries, and the most Java options, given to a builder.
MaxEntries == 2

\* utils::classpath_sep (not Windows)
classpath_sep == ":"

UserEntries == { "a.jar", "b.jar" }

UserOpts == { "-Xmx1g", "-Dx=y" }

\* The jar of this version, and the names that contain "j4rs-".
J4rsJarToUse == "j4rs-0.8.0-jar-with-dependencies.jar"

J4rsJars == { J4rsJarToUse, "j4rs-0.7.0-jar-with-dependencies.jar" }

\* What the jassets directory may hold.
JarDirs ==
  { << >>,
    << J4rsJarToUse >>,
    << "j4rs-0.7.0-jar-with-dependencies.jar", J4rsJarToUse, "gson.jar" >> }

\* .filter(|jar| !jar.contains("j4rs-") || jar.ends_with(&j4rs_jar_to_use))
FilteredJars(jars) ==
  SelectSeq(jars, LAMBDA jar : jar \notin J4rsJars \/ jar = J4rsJarToUse)

\* filtered_jars.join(utils::classpath_sep())
RECURSIVE Join(_)
Join(jars) ==
  IF jars = << >> THEN << >>
  ELSE IF Len(jars) = 1 THEN << jars[1] >>
  ELSE << jars[1], classpath_sep >> \o Join(Tail(jars))

\* .fold(start, |all, elem| format!("{}{}{}", all, classpath_sep(), elem))
RECURSIVE FoldEntries(_, _)
FoldEntries(all, entries) ==
  IF entries = << >> THEN all
  ELSE FoldEntries(all \o << classpath_sep, entries[1] >>, Tail(entries))

\* build: the classpath string.
Classpath(b, jars) ==
  IF b.no_implicit_classpath
    THEN FoldEntries(<< "." >>, b.classpath_entries)
    ELSE FoldEntries(<< "-Djava.class.path=" >> \o Join(FilteredJars(jars)),
                     b.classpath_entries)

\* utils::java_library_path (not Windows)
java_library_path == << "-Djava.library.path=", "/app/deps", ":/usr/lib:/lib" >>

\* build: the option list handed to Jvm::new.
JvmOptionList(b, jars) ==
  (IF b.no_implicit_classpath
     THEN << Classpath(b, jars) >>
     ELSE << Classpath(b, jars), java_library_path >>)
  \o [i \in 1..Len(b.java_opts) |-> << b.java_opts[i] >>]

BuilderUnchanged ==
  /\ UNCHANGED << lvars, evars, ain, arg, ares, addr, deploy >>

BuilderNew ==
  /\ builder # NewBuilder
  /\ builder' = NewBuilder
  /\ UNCHANGED jvmOptions
  /\ BuilderUnchanged

BuilderClasspathEntry(e) ==
  /\ Len(builder.classpath_entries) < MaxEntries
  /\ builder' = [builder EXCEPT !.classpath_entries = Append(@, e)]
  /\ UNCHANGED jvmOptions
  /\ BuilderUnchanged

BuilderJavaOpt(o) ==
  /\ Len(builder.java_opts) < MaxEntries
  /\ builder' = [builder EXCEPT !.java_opts = Append(@, o)]
  /\ UNCHANGED jvmOptions
  /\ BuilderUnchanged

BuilderWithNoImplicitClasspath ==
  /\ ~builder.no_implicit_classpath
  /\ builder' = [builder EXCEPT !.no_implicit_classpath = TRUE]
  /\ UNCHANGED jvmOptions
  /\ BuilderUnchanged

\* JvmBuilder::build on thread t, the jassets directory holding jars: the
\* option list is assembled and Jvm::new is called with it; when the
\* directory or the executable's path cannot be read (ioOk false), which the
\* explicit classpath never asks for, build returns the error instead.
Build(t, jars, ioOk) ==
  /\ pc[t] = "idle"
  /\ Ops < MaxOps
  /\ IF ~builder.no_implicit_classpath /\ ~ioOk
       THEN /\ jvmOptions' = [from |-> builder, list |-> << >>]
            /\ result' = [result EXCEPT ![t] = "GeneralError"]
            /\ nFail' = nFail + 1
            /\ UNCHANGED << pc, call, nCalls >>
       ELSE /\ jvmOptions' = [from |-> builder,
                               list |-> JvmOptionList(builder, jars)]
            /\ \E lib \in BOOLEAN :
                 call' = [call EXCEPT
                            ![t] = [NoCall EXCEPT !.lib = lib,
                                                  !.preEnv = tlsEnv[t]]]
            /\ pc' = [pc EXCEPT ![t] = "lock"]
            /\ result' = [result EXCEPT ![t] = "none"]
            /\ nCalls' = nCalls + 1
            /\ UNCHANGED nFail
  /\ UNCHANGED << lock, tlsEnv, activeJvms, jniFns, cache, stores, exc,
                  vmCount, jvmEnv, envsSeen, handles, detachCalls, nClones >>
  /\ UNCHANGED << evars, ain, arg, ares, builder, addr, deploy >>

BuilderNext ==
  \/ BuilderNew
  \/ \E e \in UserEntries : BuilderClasspathEntry(e)
  \/ \E o \in UserOpts : BuilderJavaOpt(o)
  \/ BuilderWithNoImplicitClasspath
  \/ \E t \in Threads : \E jars \in JarDirs : \E ioOk \in BOOLEAN :
       Build(t, jars, ioOk)

BuilderSpec == Init /\ [][BuilderNext]_vars

\* ---------------------------------------------------------------------------
\* The callback channel on its own: a program that holds one Instance (made by
\* an earlier create_instance) starts channel operations on it, JVM threads
\* deliver, and native threads receive, wait and drop receivers.

\* The operations that return an InstanceReceiver.
ChannelOps == { "invoke_to_channel", "init_callback_channel" }

\* nEngine counts the channel operations started from here.
ChannelInit ==
  /\ JvmCreated
  /\ ecall = NoECall
  /\ eresult = "Instance"
  /\ tempRefs = 0
  /\ refs = [r \in RefIds |->
               IF r = 1
                 THEN [st |-> "live", owners |-> 1, rel |-> 0, dropped |-> FALSE,
                       cls |-> "java.lang.String", raw |-> FALSE]
                 ELSE [st |-> "none", owners |-> 0, rel |-> 0, dropped |-> FALSE,
                  cls |-> "", raw |-> FALSE]]
  /\ nRefs = 1
  /\ chan = [a \in BoxAddrs |->
               [box |-> "none", reclaims |-> 0, rx |-> FALSE, reg |-> FALSE,
                late |-> FALSE, queue |-> << >>, sent |-> << >>,
                recvd |-> << >>, waiter |-> 0]]
  /\ nBoxes = 0
  /\ nEngine = 0
  /\ nDeliv = 0
  /\ nThrown = 0
  /\ ArgIdle

\* The steps of a channel operation in progress. The calling thread runs them
\* as straight-line code; each JNI call it makes returns or throws.
ChannelStep == Marshal \/ Invoke \/ ExceptionCheck \/ Release \/ Wrap

ChannelNext ==
  \/ \E t \in Threads : \E op \in ChannelOps : EngineCall(t, op)
  \/ ChannelStep
  \/ \E a \in BoxAddrs : Deliver(a)
  \/ \E t \in Threads : \E a \in BoxAddrs :
       RecvWait(t, a) \/ Recv(t, a) \/ DropReceiver(t, a)

\* The calling thread keeps running. Nothing is assumed of the JVM threads
\* that deliver callbacks nor of the threads that consume them: a delivery may
\* never happen and a consumer may wait for ever.
ChannelLive == ChannelInit /\ [][ChannelNext]_vars /\ WF_vars(ChannelStep)

\* ---------------------------------------------------------------------------
\* The address of the boxed sender, from Box::into_raw to the receiver's
\* drop. Pointers and the signed integer that carries the address have
\* PtrBits bits here (64 in the code).
PtrBits == 8

\* i64::from_str_radix(.., 16)
Radix == 16

\* The addresses Box::into_raw may return: any but null.
Pointers == 1..(2 ^ PtrBits - 1)

\* i64::MAX, at PtrBits bits.
I64_MAX == 2 ^ (PtrBits - 1) - 1

\* The hexadecimal digits of n, most significant first.
RECURSIVE HexDigits(_)
HexDigits(n) ==
  IF n < Radix THEN << n >> ELSE Append(HexDigits(n \div Radix), n % Radix)

\* format!("{:p}", raw_ptr): "0x" and the digits.
FormatPointer(p) == << "0", "x" >> \o HexDigits(p)

\* i64::from_str_radix: the digits are accumulated with checked arithmetic;
\* a value above i64::MAX is Err(PosOverflow).
RECURSIVE from_str_radix_acc(_, _)
from_str_radix_acc(acc, ds) ==
  IF ds = << >> THEN [ok |-> TRUE, v |-> acc]
  ELSE IF acc * Radix + Head(ds) > I64_MAX THEN [ok |-> FALSE, v |-> 0]
  ELSE from_str_radix_acc(acc * Radix + Head(ds), Tail(ds))

from_str_radix(ds) == from_str_radix_acc(0, ds)

\* i64::from_str_radix(&address_string[2..], 16)
SenderAddress(p) ==
  LET address_string == FormatPointer(p) IN
  from_str_radix(SubSeq(address_string, 3, Len(address_string)))

\* self.tx_address as *mut Sender<Instance>: the integer's low PtrBits bits.
AsPointer(x) == x % (2 ^ PtrBits)

\* invoke_to_channel / init_callback_channel box the sender at address p and
\* make the integer of it; unwrap() panics on Err.
BoxIntoRaw(p) ==
  /\ addr.st = "none"
  /\ LET r == SenderAddress(p) IN
       addr' = IF r.ok
                 THEN [ st |-> "boxed", ptr |-> p, tx_address |-> r.v,
                        back |-> 0 ]
                 ELSE [ st |-> "panic", ptr |-> p, tx_address |-> 0,
                        back |-> 0 ]
  /\ UNCHANGED << lvars, evars, ain, arg, ares, builder, jvmOptions, deploy >>

\* Drop for InstanceReceiver: the pointer is made of tx_address again.
ReceiverDropAddress ==
  /\ addr.st = "boxed"
  /\ addr' = [addr EXCEPT !.st = "dropped", !.back = AsPointer(addr.tx_address)]
  /\ UNCHANGED << lvars, evars, ain, arg, ares, builder, jvmOptions, deploy >>

AddrNext ==
  \/ \E p \in Pointers : BoxIntoRaw(p)
  \/ ReceiverDropAddress

AddrSpec == EngineInit /\ [][AddrNext]_vars

\* ---------------------------------------------------------------------------
\* Jvm::deploy_artifact for a MavenArtifact: the loop over the repositories
\* of get_maven_settings(). deploy.results holds what became of each
\* repository tried, in the order of the list.

\* Repositories the settings may hold.
MaxRepos == 6

\* deploy_artifact is called with a MavenArtifact while repos repositories
\* are configured, one at least.
DeployArtifact(repos) ==
  /\ repos >= 1
  /\ deploy.st \in { "none", "returned" }
  /\ deploy' = [ st |-> "create", repos |-> repos, results |-> << >>,
                 res |-> "none" ]
  /\ UNCHANGED << lvars, evars, ain, arg, ares, builder, jvmOptions, addr >>

\* The next repository: InvocationArg::try_from(repo.uri)?,
\* InvocationArg::try_from(&maven_artifact.base)? and self.create_instance(
\* SimpleMavenDeployer, ..)?: each ? returns its error from deploy_artifact.
DeployCreateInstance(outcome) ==
  /\ deploy.st = "create"
  /\ Len(deploy.results) < deploy.repos
  /\ deploy' = IF outcome = "ok"
                 THEN [deploy EXCEPT !.st = "invoke"]
                 ELSE [deploy EXCEPT !.st = "returned", !.res = "Err",
                                     !.results = Append(@, outcome)]
  /\ UNCHANGED << lvars, evars, ain, arg, ares, builder, jvmOptions, addr >>

\* let res = self.invoke(&instance, "deploy", &vec![try_from(..)?, ..]): an
\* argument that cannot be made returns its error; if res.is_ok() the loop is
\* left, else it goes on with the next repository.
DeployInvoke(outcome) ==
  /\ deploy.st = "invoke"
  /\ deploy' =
       CASE outcome = "arg_err" ->
              [deploy EXCEPT !.st = "returned", !.res = "Err",
                             !.results = Append(@, "deploy_arg_err")]
         [] outcome = "ok" ->
              [deploy EXCEPT !.st = "returned", !.res = "Ok",
                             !.results = Append(@, "ok")]
         [] outcome = "err" ->
              [deploy EXCEPT !.st = "create",
                             !.results = Append(@, "deploy_err")]
  /\ UNCHANGED << lvars, evars, ain, arg, ares, builder, jvmOptions, addr >>

\* The repositories are exhausted: the for loop ends and Ok(()) follows it.
DeployLoopEnd ==
  /\ deploy.st = "create"
  /\ Len(deploy.results) = deploy.repos
  /\ deploy' = [deploy EXCEPT !.st = "returned", !.res = "Ok"]
  /\ UNCHANGED << lvars, evars, ain, arg, ares, builder, jvmOptions, addr >>

DeployNext ==
  \/ \E repos \in 1..MaxRepos : DeployArtifact(repos)
  \/ \E outcome \in { "ok", "arg_err", "create_err" } :
       DeployCreateInstance(outcome)
  \/ \E outcome \in { "ok", "arg_err", "err" } : DeployInvoke(outcome)
  \/ DeployLoopEnd

DeploySpec == EngineInit /\ [][DeployNext]_vars


\* ------------------------------------------------------------ properties
InCreateJvm == { "creating", "try_from", "resolve", "check", "libinit" }

\* C1: the whole of create_jvm after the lock call runs with the creation lock
\* held by the running thread, so at most one thread is inside the native
\* create-VM call at a time, and at most one create-VM call succeeds in the
\* process.
C1_CreationSerialized ==
  /\ \A t \in Threads : pc[t] \in InCreateJvm => lock = t
  /\ Cardinality({ t \in Threads : pc[t] = "creating" }) <= 1
  /\ vmCount <= 1

\* C1, its case: a thread is inside the native create-VM call while another
\* thread, which has no environment either, waits for the lock.
C1_Witness ==
  \E t, u \in Threads :
    /\ t # u
    /\ pc[t] = "creating"
    /\ pc[u] = "lock"
    /\ tlsEnv[u] = NoEnv

\* The handles of thread t that are live.
LiveHandles(t) == { h \in HandleVals : handles[t][h] > 0 }

\* C2: a call made with a cached environment takes the reuse branch (no attach
\* call, no create-VM call) and works on exactly the cached pointer; such a
\* call finds every cache entry set and no exception pending, so it succeeds;
\* and all live handles of one thread wrap the same environment pointer.
C2_ReuseCachedEnv ==
  /\ \A t \in Threads :
       pc[t] \in InCreateJvm /\ call[t].preEnv # NoEnv =>
         call[t].branch = "reuse" /\ call[t].env = call[t].preEnv
  /\ \A t \in Threads :
       pc[t] \in { "resolve", "check" } /\ call[t].branch = "reuse" =>
         ~exc[t] /\ jniFns /\ \A e \in Entries : cache[e] # "none"
  /\ \A t \in Threads : \A h1, h2 \in LiveHandles(t) : h1.env = h2.env

\* C3: a thread is inside the native create-VM call only while no JavaVM
\* exists in the process.
C3_CreateOnlyWithoutVm ==
  \A t \in Threads : pc[t] = "creating" => vmCount = 0

\* Thread t alone holds handles, none of them a clone, all with
\* detach_thread_on_drop set.
OnlyCreatedHandles(t) ==
  /\ nClones = 0
  /\ \A h \in LiveHandles(t) : h.detach
  /\ \A u \in Threads \ {t} : Live(u) = 0

\* C4: when a thread drops the handles it created, each drop leaves the
\* active-handle counter equal to the number of handles still live, and
\* detach_current_thread is called at the drop of the last handle and at no
\* other (where the thread is detached, unless enumerating the JavaVMs fails);
\* so K handles dropped leave the counter at zero after one detach.
C4_DetachOnceAtLastDrop ==
  [][\A t \in Threads : \A h \in HandleVals :
       Drop(t, h) /\ OnlyCreatedHandles(t) =>
         /\ activeJvms' = Live(t)'
         /\ detachCalls'[t] = detachCalls[t] + (IF Live(t)' = 0 THEN 1 ELSE 0)
         /\ Live(t)' = 0 /\ nFail' = nFail => jvmEnv'[t] = NoEnv
         /\ Live(t)' > 0 => jvmEnv'[t] = jvmEnv[t] /\ tlsEnv'[t] = tlsEnv[t]]_vars

\* C4, its case: one thread created two handles and then dropped them all;
\* the counter is zero and the thread was detached once.
C4_Witness ==
  \E t \in Threads :
    /\ nCalls = 2 /\ nFail = 0 /\ nClones = 0
    /\ \A u \in Threads : pc[u] = "idle" /\ Live(u) = 0
    /\ \A u \in Threads \ {t} : jvmEnv[u] = NoEnv /\ detachCalls[u] = 0
    /\ result[t] = "Ok"
    /\ activeJvms = 0
    /\ detachCalls[t] = 1
    /\ jvmEnv[t] = NoEnv /\ tlsEnv[t] = NoEnv

\* C5: a step that detaches a thread or clears its cached environment pointer
\* leaves that thread without live handles.
C5_DetachOnlyWithoutLiveHandles ==
  [][\A t \in Threads :
       \/ detachCalls'[t] # detachCalls[t]
       \/ (jvmEnv[t] # NoEnv /\ jvmEnv'[t] = NoEnv)
       \/ (tlsEnv[t] # NoEnv /\ tlsEnv'[t] = NoEnv)
       => Live(t)' = 0]_vars

C7_ErrorLeavesCounterAndEnv ==
  [][\A t \in Threads :
       pc[t] \in InCreateJvm /\ pc'[t] = "idle" /\ result'[t] # "Ok" =>
         /\ call[t].delta + activeJvms' - activeJvms = 0
         /\ tlsEnv'[t] = call[t].preEnv
         /\ Live(t)' = Live(t) - call[t].delta]_vars

\* C8: no thread has been returned a handle while a Reference Cache entry
\* holds a failed (null) identifier.
C8_NoHandleWithFailedEntry ==
  \A t \in Threads :
    pc[t] = "idle" /\ result[t] = "Ok" => \A e \in Entries : cache[e] # "null"

GroupsInOrder(groups) ==
  \A i, j \in 1..Len(groups) :
    i < j /\ (\E e \in groups[j] : cache[e] # "none") =>
      \A e \in groups[i] : cache[e] # "none"

FactoryMethods ==
  { "factory_instantiate_method", "factory_create_for_static_method",
    "factory_create_java_array_method", "factory_create_java_list_method" }

ProxyMethods ==
  { "invoke_method", "invoke_static_method", "invoke_to_channel_method",
    "init_callback_channel_method", "field_method" }

CloneCastMethods == { "clone_static_method", "cast_static_method" }

InvArgConstructors ==
  { "inv_arg_java_constructor_method", "inv_arg_rust_constructor_method",
    "inv_arg_basic_rust_constructor_method" }

BoxedEntries ==
  { "integer_class", "integer_constructor_method", "long_class",
    "long_constructor_method", "short_class", "short_constructor_method",
    "byte_class", "byte_constructor_method", "float_class",
    "float_constructor_method", "double_class", "double_constructor_method" }

\* Every method identifier that is set was looked up in a class handle that
\* had been resolved.
MethodAfterItsClass ==
  \A e \in MethodEntries : cache[e] # "none" => cache[ClassOf(e)] = "ok"

\* C10, as stated: factory class, factory constructor, InvocationArg class,
\* factory methods, the call-proxy methods with getJson among them, the
\* clone/cast static methods, then the boxed-primitive classes and
\* constructors; every method identifier after its class handle.
C10_OrderAsStated ==
  /\ GroupsInOrder(<< {"factory_class"}, {"factory_constructor_method"},
                      {"invocation_arg_class"}, FactoryMethods,
                      ProxyMethods \cup {"get_json_method"},
                      CloneCastMethods, BoxedEntries >>)
  /\ MethodAfterItsClass

\* C10, amended: getJson is resolved after the clone/cast static methods, and
\* the three InvocationArg constructors after getJson, before the
\* boxed-primitive classes, each of which is followed by its constructor.
C10_OrderInCode ==
  /\ GroupsInOrder(<< {"factory_class"}, {"factory_constructor_method"},
                      {"invocation_arg_class"}, FactoryMethods,
                      {"native_invocation_class"}, ProxyMethods,
                      {"class_to_invoke_clone_and_cast"}, CloneCastMethods,
                      {"get_json_method"}, InvArgConstructors,
                      {"integer_class"}, {"integer_constructor_method"},
                      {"long_class"}, {"long_constructor_method"},
                      {"short_class"}, {"short_constructor_method"},
                      {"byte_class"}, {"byte_constructor_method"},
                      {"float_class"}, {"float_constructor_method"},
                      {"double_class"}, {"double_constructor_method"} >>)
  /\ MethodAfterItsClass

\* C10, its case: the population has resolved the cast static method and has
\* not resolved getJson yet.
C10_Witness ==
  /\ cache["cast_static_method"] = "ok"
  /\ cache["get_json_method"] = "none"
  /\ \E t \in Threads : pc[t] = "resolve"

\* ------------------------------------------------- engine calls: properties
\* An engine call returns to its caller in this step.
EngineReturns == ecall.op # "none" /\ ecall'.op = "none"

\* C11: an engine call in which the JVM side threw returns JavaError, and
\* every engine call returns with no exception pending in the environment of
\* its thread; a call in which nothing threw does not return JavaError, also
\* after an earlier call on the same handle threw.
C11_ThrowGivesJavaError ==
  [][ EngineReturns =>
        /\ ~exc'[ecall.thr]
        /\ ecall.threw => eresult' = "JavaError"
        /\ ~ecall.threw => eresult' # "JavaError" ]_vars

\* A call has returned an Instance after an earlier call on the same handle
\* threw.
C11_Witness ==
  /\ ecall.op = "none"
  /\ nThrown > 0
  /\ nEngine = MaxEngineCalls
  /\ eresult = "Instance"

\* The operations that share the core call shape.
CoreCallOps ==
  { "create_instance", "invoke", "invoke_static", "field", "create_java_array",
    "create_java_list" }

\* C12: in create_instance, invoke, invoke_static, field, create_java_array
\* and create_java_list the result is promoted only after an exception check
\* that followed the invocation; a call in which the JVM side threw holds no
\* durable reference for its result and does not return an Instance.
C12_CheckBeforePromote ==
  [][ /\ ecall'.op \in CoreCallOps =>
           /\ (Program(ecall'.op)[ecall'.ip].k = "promote") => ecall'.checked
           /\ ecall'.threw => ecall'.res = NoRef
      /\ (EngineReturns /\ ecall.op \in CoreCallOps /\ ecall.threw) =>
           /\ eresult' # "Instance"
           /\ refs' = refs ]_vars

\* The target of one of these operations has thrown and the operation is at
\* its exception check.
C12_Witness ==
  /\ ecall.op \in CoreCallOps
  /\ ecall.invoked > 0
  /\ ecall.threw
  /\ AtStmt("check")

\* C13: in clone_instance and cast the result of the static call is promoted
\* to a durable reference only after an exception check that followed the
\* call.
C13_CloneCastCheckThenWrap ==
  (ecall.op \in { "clone_instance", "cast" } /\ AtStmt("promote"))
    => ecall.checked

\* C14: between engine calls no temporary reference is outstanding: every
\* call has deleted, by the time it returns, each temporary reference it
\* created.
C14_NoTemporariesBetweenCalls == ecall.op = "none" => tempRefs = 0

\* What an engine call can return.
TerminalResults == { "Instance", "Receiver", "Value", "ParseError", "JavaError" }

\* C15: an engine call executes its statements once each, in order; it invokes
\* its JVM-side target at most once, makes no further call into the JVM once
\* one has thrown, and ends by returning one result, after which no call is
\* in progress until the caller makes one.
C15_OneInvocationNoRetry ==
  [][ /\ ecall'.op # "none" => ecall'.invoked <= 1
      /\ (ecall.op # "none" /\ ecall'.op # "none" /\ ecall' # ecall) =>
           /\ ecall'.op = ecall.op
           /\ ecall'.ip = ecall.ip + 1
           /\ ecall.threw => ecall'.jvmCalls = ecall.jvmCalls
      /\ EngineReturns =>
           /\ eresult' \in TerminalResults
           /\ nEngine' = nEngine
           /\ nThrown' = nThrown ]_vars

\* The only call made so far threw once and has returned JavaError.
C15_Witness ==
  /\ ecall.op = "none"
  /\ nEngine = 1
  /\ nThrown = 1
  /\ eresult = "JavaError"

\* C16: no call into the JVM is made while an earlier invocation of the same
\* engine call has not been followed by an exception check, and between
\* engine calls no exception is pending in any environment.
C16_CheckAfterEveryJvmCall ==
  /\ ecall.uncheckedCalls = 0
  /\ ecall.op = "none" => \A t \in Threads : ~exc[t]

\* C17: the durable reference of every Instance that has been dropped has
\* been released, whichever thread dropped it and whether or not that thread
\* had a cached environment at the time.
C17_ReleasedWhenDropped ==
  \A r \in RefIds : refs[r].dropped => refs[r].st = "released"

\* C18: every durable reference is owned by at most one Instance and has been
\* released at most once.
C18_ExclusiveOwnership ==
  \A r \in RefIds : refs[r].owners <= 1 /\ refs[r].rel <= 1

\* Between calls, one Instance has been dropped and its reference released,
\* and another Instance, returned by a call on an Instance, is live.
C18_Witness ==
  /\ ecall.op = "none"
  /\ eresult = "Instance"
  /\ nEngine = MaxEngineCalls
  /\ \E r1 \in RefIds : \E r2 \in RefIds :
       /\ r1 # r2
       /\ refs[r1].rel = 1
       /\ refs[r1].owners = 0
       /\ refs[r2].owners = 1
       /\ refs[r2].st = "live"

C20_SenderReclaimedOnce ==
  \A a \in BoxAddrs :
    /\ chan[a].reclaims <= 1
    /\ (chan[a].box = "alloc" /\ ecall.box # a) => chan[a].rx
    /\ chan[a].box = "freed" => ~chan[a].rx

\* C21: dropping an InstanceReceiver does not withdraw the sender's address
\* from the JVM side, and a callback that occurs after the drop is not
\* rejected: the delivery that is recorded as late is made with the address of
\* a sender that was already reclaimed, while no receiver exists.
C21_LateDeliveryToReclaimedSender ==
  [][\A a \in BoxAddrs :
       /\ chan[a].reg => chan'[a].reg
       /\ (~chan[a].late /\ chan'[a].late) =>
            /\ chan[a].box = "freed"
            /\ chan[a].reclaims >= 1
            /\ chan[a].reg
            /\ ~chan[a].rx
            /\ nDeliv' = nDeliv + 1]_vars

\* A callback was delivered to the address of a sender whose receiver had been
\* dropped.
C21_Witness ==
  \E a \in BoxAddrs :
    chan[a].late /\ chan[a].box = "freed" /\ chan[a].reclaims = 1

\* C22: callback delivery is asynchronous with respect to the caller:
\* invoke_to_channel and init_callback_channel return once the JVM-side call
\* has returned, whether or not any delivery is ever made, and a thread that
\* waits on a receiver holds up no engine call of another thread: every engine
\* call that was started returns.
C22_CallReturnsWithoutDelivery ==
  /\ (ecall.op \in ChannelOps) ~> (ecall.op = "none")
  /\ (ecall.op # "none" /\ \E c \in Threads : Blocked(c))
       ~> (ecall.op = "none")

\* A channel operation returned its receiver with no delivery made, a consumer
\* thread waits on that receiver, and the initiating thread is inside its next
\* engine call.
C22_Witness ==
  /\ nDeliv = 0
  /\ ecall.op # "none"
  /\ \E a \in BoxAddrs :
       /\ chan[a].rx
       /\ chan[a].sent = << >>
       /\ chan[a].waiter \in Threads \ { ecall.thr }

\* The class name the specification gives for each supported native type.
DeclaredClass ==
  [ String |-> "java.lang.String", str |-> "java.lang.String",
    bool |-> "java.lang.Boolean", i8 |-> "java.lang.Byte",
    char |-> "java.lang.Character", i16 |-> "java.lang.Short",
    i32 |-> "java.lang.Integer", i64 |-> "java.lang.Long",
    f32 |-> "java.lang.Float", f64 |-> "java.lang.Double", unit |-> "void" ]

\* C23: for every supported native type, by value or by reference, the
\* argument that InvocationArg::try_from yields declares the fixed JVM class
\* of that type (String for str and String, Boolean for bool, Byte for i8,
\* Character for char, Short for i16, Integer for i32, Long for i64, Float for
\* f32, Double for f64, void for ()), and it is never the Java variant.
C23_TryFromDeclaresFixedClass ==
  (ain.op = "try_from" /\ ares.kind = "Ok") =>
    /\ ares.arg.class_name = DeclaredClass[ain.ty]
    /\ ares.arg.variant \in { "Rust", "RustBasic" }
    /\ arg = ares.arg

\* try_from of a reference to an i16 yielded its argument.
C23_Witness ==
  /\ ain.op = "try_from"
  /\ ain.ty = "i16"
  /\ ain.byRef
  /\ ares.kind = "Ok"
  /\ arg.class_name = "java.lang.Short"

\* The class names the specification gives a primitive mapping: the boxed
\* numeric classes, Boolean, Character and void.
BoxedOrVoid ==
  { "java.lang.Byte", "java.lang.Short", "java.lang.Integer",
    "java.lang.Long", "java.lang.Float", "java.lang.Double",
    "java.lang.Boolean", "java.lang.Character", "void" }

\* C24: into_primitive returns Ok for an argument whose class name is a boxed
\* numeric class, Boolean, Character or void, and for an argument whose class
\* name has no primitive mapping, such as java.lang.String, it returns an
\* error value and does not panic.
C24_IntoPrimitiveOkOrError ==
  ain.op = "into_primitive" =>
    /\ ares.kind # "Panic"
    /\ ain.was.class_name \in BoxedOrVoid =>
         /\ ares.kind = "Ok"
         /\ ares.arg.variant = ain.was.variant
    /\ ain.was.class_name \notin BoxedOrVoid =>
         /\ ares.kind = "JavaError"
         /\ arg = NoArg

\* into_primitive of an argument built from a String returned its error.
C24_Witness ==
  /\ ain.op = "into_primitive"
  /\ ain.was.variant = "RustBasic"
  /\ ain.was.class_name = "java.lang.String"
  /\ ares.kind = "JavaError"

\* C25: InvocationArg::new_2 chooses the variant by a closed dispatch on the
\* native type: String, i8, i16, i32 and i64 give the JNI-boxed variant
\* (RustBasic, serialized = false); every other type, bool, char, f32, f64 and
\* () among them, gives the serialized variant (Rust, serialized = true)
\* carrying the JSON text of the value; the class name given is stored
\* unchanged in both.
C25_New2ClosedDispatch ==
  (ain.op = "new_2" /\ ares.kind = "Ok") =>
    /\ arg.class_name = ain.cn
    /\ ain.ty \in { "String", "i8", "i16", "i32", "i64" } =>
         /\ arg.variant = "RustBasic"
         /\ arg.serialized = FALSE
         /\ arg.instance.class_name = ain.cn
    /\ ain.ty \notin { "String", "i8", "i16", "i32", "i64" } =>
         /\ arg.variant = "Rust"
         /\ arg.serialized = TRUE
         /\ arg.json = ToJson(ain.ty, ain.v)
         /\ arg.json # ""

\* new_2 serialized a bool under a class name that is not Boolean's.
C25_Witness ==
  /\ ain.op = "new_2"
  /\ ain.ty = "bool"
  /\ ain.cn = "com.example.MyBean"
  /\ arg.variant = "Rust"
  /\ arg.json = "true"
  /\ arg.class_name = "com.example.MyBean"

\* C26: InvocationArg::instance returns the wrapped Instance only for the Java
\* variant; for the Rust and RustBasic variants it returns a RustError and
\* never an Instance.
C26_InstanceOnlyOfJava ==
  ain.op = "instance" =>
    /\ ain.was.variant = "Java" =>
         /\ ares.kind = "Instance"
         /\ ares.instance = ain.was.instance
    /\ ain.was.variant \in { "Rust", "RustBasic" } =>
         /\ ares.kind = "RustError"
         /\ ares.instance = NoInstance

\* InvocationArg::instance was called on a JNI-boxed argument, which holds an
\* Instance, and returned the error.
C26_Witness ==
  /\ ain.op = "instance"
  /\ ain.was.variant = "RustBasic"
  /\ ain.was.instance # NoInstance
  /\ ares.kind = "RustError"

\* C27: the engine operations and the TryFrom builders report failure as an
\* error result, and InvocationArg::new panics only when the calling thread
\* has no thread-local environment, never when one is cached.
C27_NewPanicsOnlyWithoutEnv ==
  ares.kind = "Panic" => (ain.op = "new" /\ tlsEnv[ain.thr] = NoEnv)

\* C28: to_rust consumes the Instance it is given and returns the value
\* deserialized from the JSON text of getJson; an exception pending after
\* getJson yields JavaError, JSON text that does not deserialize yields
\* ParseError, and in every outcome the durable reference of the consumed
\* Instance is released.
C28_ToRustReleasesInstance ==
  [][(ecall.op = "to_rust" /\ ecall'.op = "none") =>
       /\ eresult' \in { "Value", "JavaError", "ParseError" }
       /\ (ecall.threw /\ ecall.ip = 2) => eresult' = "JavaError"
       /\ refs'[ecall.target].dropped
       /\ refs'[ecall.target].owners = refs[ecall.target].owners - 1
       /\ refs'[ecall.target].st = "released"]_vars

\* C29: once the process-wide VM-creation lock is poisoned, every later
\* create_jvm call returns GeneralError without attaching the thread, creating
\* a JVM, populating the cache or changing the active-handle counter, and the
\* lock stays poisoned.
C29_PoisonedLockGivesGeneralError ==
  [][lock = Poisoned =>
       /\ lock' = Poisoned
       /\ \A t \in Threads :
            (pc[t] = "lock" /\ pc'[t] # "lock") =>
              /\ pc'[t] = "idle"
              /\ result'[t] = "GeneralError"
              /\ UNCHANGED << jvmEnv, tlsEnv, envsSeen, vmCount, jniFns,
                              cache, stores, activeJvms, handles >>]_vars

\* A JVM exists, the lock is poisoned, and a thread that called create_jvm
\* afterwards got GeneralError and is not attached.
C29_Witness ==
  /\ lock = Poisoned
  /\ vmCount = 1
  /\ \E t \in Threads :
       /\ result[t] = "GeneralError"
       /\ jvmEnv[t] = NoEnv
       /\ handles[t] = EmptyBag

\* C30: JvmBuilder::build hands VM creation an ordered option list: first the
\* classpath option, a -Djava.class.path= string with the user's classpath
\* entries in insertion order, then the library-path option, then every
\* java_opt in insertion order; with_no_implicit_classpath only removes the
\* implicit jars and the library-path option, and the first element is still a
\* classpath option.
C30_OptionListOrder ==
  jvmOptions.list # << >> =>
    LET b == jvmOptions.from
        list == jvmOptions.list
        rest == IF b.no_implicit_classpath THEN 1 ELSE 2
    IN  /\ Head(list[1]) = "-Djava.class.path="
        /\ SelectSeq(list[1], LAMBDA x : x \in UserEntries)
             = b.classpath_entries
        /\ b.no_implicit_classpath =>
             SelectSeq(list[1], LAMBDA x : x \in J4rsJars \cup { "gson.jar" })
               = << >>
        /\ ~b.no_implicit_classpath =>
             /\ Head(list[2]) = "-Djava.library.path="
             /\ list[2] = java_library_path
        /\ Len(list) = rest + Len(b.java_opts)
        /\ \A i \in 1..Len(b.java_opts) : list[rest + i] = << b.java_opts[i] >>

\* The operations whose Instance is declared with the requested class name.
NamedConstructors ==
  { "create_instance", "create_java_array", "create_java_list" }

\* The operations whose Instance is declared with the placeholder.
PlaceholderOps ==
  { "invoke", "invoke_static", "field", "static_class", "cast",
    "clone_instance" }

\* C31: when create_instance, create_java_array or create_java_list returns
\* an Instance, its declared class name is the class name the call was given,
\* with zero arguments as well; when invoke, invoke_static, field,
\* static_class, cast or clone_instance returns one, its declared class name
\* is the placeholder, whatever the class of the Instance it was called on
\* and whatever class name it was given.
C31_DeclaredClassName ==
  [][ (AtStmt("wrap") /\ eresult' = "Instance") =>
        /\ ecall.op \in NamedConstructors \cup PlaceholderOps
        /\ ecall.op \in NamedConstructors =>
             refs'[ecall.res].cls = ecall.cn
        /\ ecall.op \in PlaceholderOps =>
             refs'[ecall.res].cls = UNKNOWN_FOR_RUST ]_vars

\* A constructor has returned an Instance declared with a requested class
\* name, and an operation called after it has returned a live Instance
\* declared with the placeholder.
C31_Witness ==
  /\ eresult = "Instance"
  /\ \E r1, r2 \in RefIds :
       /\ refs[r1].cls = "java.util.ArrayList"
       /\ refs[r2].cls = UNKNOWN_FOR_RUST
       /\ refs[r2].owners > 0

\* A step in which into_primitive is called and returns.
IntoPrimitiveReturns ==
  /\ ain' # ain
  /\ ain'.op = "into_primitive"

\* C32: into_primitive changes only the declared class name of the argument,
\* to the primitive descriptor of its boxed class: the variant, the wrapped
\* Instance, the JSON payload and the serialized flag of the argument handed
\* back are those of the argument given. It makes no call into the JVM: it
\* needs no environment (it never ends as a call without one does), no
\* reference is made or released and no exception becomes pending.
C32_IntoPrimitiveChangesClassNameOnly ==
  [][ IntoPrimitiveReturns =>
        /\ ain'.was = arg
        /\ ares'.kind \in { "Ok", "JavaError" }
        /\ ares'.kind = "Ok" =>
             /\ arg'.class_name = PrimitiveOf(arg.class_name)
             /\ arg'.variant = arg.variant
             /\ arg'.instance = arg.instance
             /\ arg'.json = arg.json
             /\ arg'.serialized = arg.serialized
        /\ UNCHANGED << exc, refs, nRefs, tempRefs, nThrown, tlsEnv >> ]_vars

\* A thread with no cached environment turned an argument made from an
\* Instance of java.lang.Integer into one declared int, the Instance kept.
C32_Witness ==
  /\ ain.op = "into_primitive"
  /\ tlsEnv[ain.thr] = NoEnv
  /\ ain.was.variant = "Java"
  /\ ain.was.class_name = "java.lang.Integer"
  /\ ares.kind = "Ok"
  /\ arg = Java(ain.was.instance, "int", ain.was.serialized)

\* C33: the active-handle counter equals the number of live Jvm handles of
\* the process, the handles made by Jvm::clone among them, and is never
\* negative.
C33_CounterEqualsLiveHandles ==
  /\ activeJvms = TotalLive
  /\ activeJvms >= 0

\* C34: once every Jvm handle of the process has been dropped, all of them
\* with detach_thread_on_drop set, every thread that create_jvm attached or
\* created the JVM on is detached and has no cached environment pointer, on
\* whichever threads the handles lived and in whichever order they were
\* dropped. Stated for the runs in which no JNI call fails, so that every
\* thread that is attached was given a handle.
C34_AllDroppedAllDetached ==
  (nFail = 0 /\ TotalLive = 0 /\ \A t \in Threads : pc[t] = "idle") =>
    \A t \in Threads : jvmEnv[t] = NoEnv /\ tlsEnv[t] = NoEnv

\* C35: every handle that create_jvm returns wraps a non-null environment
\* pointer, that of its thread, which is attached to the JVM; and the native
\* create-VM call is entered only while no JavaVM exists: when one exists and
\* enumerating it or attaching the thread fails, the call returns an error
\* and no handle.
C35_HandleWrapsAttachedEnv ==
  [][\A t \in Threads :
       /\ (pc[t] \in InCreateJvm /\ pc'[t] = "idle" /\ result'[t] = "Ok") =>
            /\ call[t].env # NullEnv
            /\ jvmEnv'[t] = call[t].env
       /\ pc'[t] = "creating" => vmCount' = 0]_vars

\* C36: the address of the boxed sender is encoded as a signed integer of
\* the pointer's width and decoded in the receiver's drop to the same
\* address, for every pointer value, those with the top bit set among them,
\* without a panic and without wrap-around.
C36_AddressRoundTrip ==
  /\ addr.st # "panic"
  /\ addr.st \in { "boxed", "dropped" } =>
       /\ addr.tx_address \in (0 - I64_MAX - 1)..I64_MAX
       /\ AsPointer(addr.tx_address) = addr.ptr
  /\ addr.st = "dropped" => addr.back = addr.ptr

\* C37: under fair scheduling every create_jvm call of every thread returns,
\* with a handle or an error: the thread that holds the creation lock is
\* inside create_jvm and is not waiting for the lock (the registration of the
\* native library does not call create_jvm again), and a thread that has
\* returned does not hold it.
C37_EveryCallReturns ==
  /\ [](\A t \in Threads : lock = t => pc[t] \in InCreateJvm)
  /\ \A t \in Threads : (pc[t] # "idle") ~> (pc[t] = "idle" /\ lock # t)

\* Two threads have called create_jvm, each has returned with its handle,
\* and the lock is free.
C37_Witness ==
  \E t \in Threads :
    /\ pc[t] = "idle"
    /\ result[t] = "Ok"
    /\ Live(t) > 0
    /\ \E u \in Threads \ { t } : Live(u) > 0
    /\ lock = 0

\* C38: Instance::java_object hands the durable reference to its caller
\* without releasing it: a reference that was returned by java_object is live,
\* and the drop of the consumed Instance has not deleted it.
C38_JavaObjectKeepsReference ==
  \A r \in RefIds :
    refs[r].raw => refs[r].st = "live" /\ refs[r].rel = 0

\* C39: deploy_artifact for a Maven artifact tries the configured
\* repositories in order and stops after the first whose deploy call
\* succeeds; it returns an error when the deploy call failed for every
\* repository, and Ok only if the deploy call of some repository succeeded.
C39_DeployOkOnlyIfDeployed ==
  deploy.st = "returned" =>
    /\ Len(deploy.results) <= deploy.repos
    /\ \A i \in 1..(Len(deploy.results) - 1) :
         deploy.results[i] = "deploy_err"
    /\ deploy.res = "Ok" =>
         \E i \in 1..Len(deploy.results) : deploy.results[i] = "ok"
    /\ (\A i \in 1..Len(deploy.results) : deploy.results[i] # "ok") =>
         deploy.res = "Err"

====
